---- MODULE Spec2Model ----
(***************************************************************************)
(* Verification resolution of contract-analyzer.                           *)
(*                                                                         *)
(*   Spec      VerificationService.getVerificationData                     *)
(*             (src/src/core/verification.js) with the registry client     *)
(*             (src/src/core/sourcify.js) and the explorer client          *)
(*             (src/src/core/blockExplorer.js) it calls.                   *)
(*   SpecInfo  getContractInfo (src/contractInfo.js): proxy detection,     *)
(*             implementation fetch and combineAbis.                       *)
(*   SpecAbi   combineAbis and extractEventSignatures applied to ABIs      *)
(*             (src/contractInfo.js).                                      *)
(*   SpecRetry fetchWithRetry, attempt by attempt                          *)
(*             (src/src/core/blockExplorer.js).                            *)
(*   SpecVerify  SourcifyService.verifyContract, request by request        *)
(*             (src/src/core/sourcify.js).                                 *)
(*   SpecNoKey getVerificationData and the four explorer operations when   *)
(*             no API key is configured.                                   *)
(*   SpecOps   each explorer operation called on its own.                  *)
(*   SpecScan  the event scan of analyzeContractFromBlockscanner           *)
(*             (src/startBlock.js), request by request.                    *)
(*   SpecConfig  the chain configuration of src/src/utils/chains.js under  *)
(*             addChain, removeChain, setSelectedChain and saveApiKey.     *)
(*   SpecFiles the source files analyzeContract saves                      *)
(*             (src/src/core/blockExplorer.js, src/src/utils/storage.js).  *)
(*                                                                         *)
(* JavaScript values are tagged records [t |-> type, ...]; a JS string is  *)
(* a sequence of tokens (a token is an atom of text), so that trimming,    *)
(* startsWith/endsWith and JSON.parse are computed and not assumed.        *)
(***************************************************************************)
EXTENDS Integers, Sequences, FiniteSets, TLC

VARIABLES
    \* ---- getVerificationData ----
    pc,            \* position in getVerificationData
    address,       \* argument `address`
    chain,         \* argument `chain`
    keyStore,      \* what getApiKey(chain.id) finds: "key", "nokey", "missing"
    response,      \* the `response` object being built
    fetchedAbiFromExplorer,
    sourcifyResult,\* result of the verifyContract call of line 32 (history)
    abiFetch,      \* how getAbiFromExplorer ended (history)
    creation,      \* what getContractCreationTx returned (history)
    calls,         \* operations invoked so far, in order (history)
    \* ---- getContractInfo ----
    ipc,           \* position in getContractInfo
    info,          \* locals and result of getContractInfo
    \* ---- combineAbis / extractEventSignatures ----
    mpc,           \* position in the merge of two ABIs
    merge,         \* the two ABIs and what was computed from them
    \* ---- fetchWithRetry ----
    rpc,           \* position in fetchWithRetry
    retry,         \* arguments, loop counter and history of one fetchWithRetry call
    \* ---- verifyContract ----
    vpc,           \* position in verifyContract
    verify,        \* endpoint answers, endpoints queried so far, result
    \* ---- one explorer operation called on its own ----
    xpc,           \* "ready" before the call, "called" after it
    xcall,         \* the operation called and how it ended
    \* ---- analyzeContractFromBlockscanner, the event scan ----
    scan,          \* block range, loop counter, requests issued, events kept
    \* ---- utils/chains.js ----
    conf,          \* configCache, the config file, the last operation
    \* ---- analyzeContract, saving the source files ----
    files          \* the sourceCode map, loop position, paths written

vsVars == <<pc, address, chain, keyStore, response, fetchedAbiFromExplorer,
            sourcifyResult, abiFetch, creation, calls>>
ciVars == <<ipc, info>>
abVars == <<mpc, merge>>
rtVars == <<rpc, retry>>
vfVars == <<vpc, verify>>
xVars == <<xpc, xcall>>
scVars == <<scan>>
cfVars == <<conf>>
flVars == <<files>>
vars == <<pc, address, chain, keyStore, response, fetchedAbiFromExplorer,
          sourcifyResult, abiFetch, creation, calls, ipc, info, mpc, merge,
          rpc, retry, vpc, verify, xpc, xcall, scan, conf, files>>

-----------------------------------------------------------------------------
(* JavaScript values *)

Undefined == [t |-> "undefined"]
Null == [t |-> "null"]
Str(s) == [t |-> "string", v |-> <<s>>]
Txt(toks) == [t |-> "string", v |-> toks]
Num(n) == [t |-> "number", v |-> n]
NaN == [t |-> "nan"]
False == [t |-> "false"]
True == [t |-> "true"]
Bool(b) == IF b THEN True ELSE False
Arr(seq) == [t |-> "array", v |-> seq]
Obj(fields) == [t |-> "object", f |-> fields]
Err(msg) == [t |-> "error", message |-> msg]
\* An operation that was not invoked has no result.
NotCalled == [t |-> "notcalled", k |-> "notcalled"]

\* ToBoolean: undefined, null, false, "", 0 and NaN are falsy, everything else truthy.
Truthy(x) ==
    CASE x.t = "undefined" -> FALSE
      [] x.t = "null" -> FALSE
      [] x.t = "nan" -> FALSE
      [] x.t = "false" -> FALSE
      [] x.t = "string" -> Len(x.v) > 0
      [] x.t = "number" -> x.v # 0
      [] OTHER -> TRUE

\* obj?.key : undefined when obj is not an object or has no such property.
Prop(obj, key) ==
    IF obj.t = "object" /\ key \in DOMAIN obj.f THEN obj.f[key] ELSE Undefined

\* a || b
OrElse(a, b) == IF Truthy(a) THEN a ELSE b

Range(s) == {s[i] : i \in DOMAIN s}

-----------------------------------------------------------------------------
(* Text: tokens, trimming, JSON.parse of an ABI string *)

\* ABI entries a token of an ABI text stands for.
EntryOf(tok) ==
    CASE tok = "f" -> Obj([type |-> Str("function"), name |-> Str("foo"), inputs |-> Arr(<<>>)])
      [] tok = "v" -> Obj([type |-> Str("event"), name |-> Str("Ev"), inputs |-> Arr(<<>>)])
      [] OTHER -> Obj([type |-> Str("function"), name |-> Str("upgradeTo"), inputs |-> Arr(<<>>)])

EntryTokens == {"f", "v", "u"}

NotVerifiedText == Str("Contract source code not verified")

RECURSIVE TrimLeft(_)
TrimLeft(toks) ==
    IF Len(toks) > 0 /\ Head(toks) = " " THEN TrimLeft(Tail(toks)) ELSE toks

RECURSIVE TrimRight(_)
TrimRight(toks) ==
    IF Len(toks) > 0 /\ toks[Len(toks)] = " "
    THEN TrimRight(SubSeq(toks, 1, Len(toks) - 1))
    ELSE toks

\* String.prototype.trim
Trim(toks) == TrimRight(TrimLeft(toks))

StartsWith(toks, tok) == Len(toks) > 0 /\ Head(toks) = tok
EndsWith(toks, tok) == Len(toks) > 0 /\ toks[Len(toks)] = tok

\* White space between JSON tokens is insignificant.
RECURSIVE Squeeze(_)
Squeeze(toks) ==
    IF Len(toks) = 0 THEN <<>>
    ELSE IF Head(toks) = " " THEN Squeeze(Tail(toks))
    ELSE <<Head(toks)>> \o Squeeze(Tail(toks))

\* The elements of a JSON array body  e , e , ... e  (ok), or not ok.
RECURSIVE Elements(_)
Elements(toks) ==
    LET bad == [ok |-> FALSE, es |-> <<>>]
    IN  IF Len(toks) = 0 THEN bad
        ELSE IF Head(toks) \notin EntryTokens THEN bad
        ELSE IF Len(toks) = 1 THEN [ok |-> TRUE, es |-> <<EntryOf(Head(toks))>>]
        ELSE IF toks[2] # "," THEN bad
        ELSE LET rest == Elements(SubSeq(toks, 3, Len(toks)))
             IN  IF rest.ok
                 THEN [ok |-> TRUE, es |-> <<EntryOf(Head(toks))>> \o rest.es]
                 ELSE bad

\* JSON.parse(text): [k |-> "return", v |-> value] or [k |-> "throw", e |-> SyntaxError].
\* The alphabet of texts is "[", "]", ",", " ", the entry tokens and tokens that
\* are no JSON at all, so every text that parses is an array.
JSONParse(text) ==
    LET toks == Squeeze(text.v)
        n == Len(toks)
        syntaxError == [k |-> "throw", e |-> Err("SyntaxError")]
    IN  IF n < 2 \/ toks[1] # "[" \/ toks[n] # "]" THEN syntaxError
        ELSE IF n = 2 THEN [k |-> "return", v |-> Arr(<<>>)]
        ELSE LET es == Elements(SubSeq(toks, 2, n - 1))
             IN  IF es.ok THEN [k |-> "return", v |-> Arr(es.es)]
                 ELSE syntaxError

-----------------------------------------------------------------------------
(* Registry client: src/src/core/sourcify.js *)

FooAbi == Arr(<<EntryOf("f")>>)
DeploymentDoc == Obj([deployment |-> Obj([blockNumber |-> Num(100),
                                          transactionHash |-> Str("0xtx")])])
\* metadata.json documents the registry may hold
MetaAbiDeploy == Obj([output |-> Obj([abi |-> FooAbi, devdoc |-> DeploymentDoc]),
                      compiler |-> Obj([version |-> Str("0.8.28")])])
MetaAbi == Obj([output |-> Obj([abi |-> FooAbi]),
                compiler |-> Obj([version |-> Str("0.8.28")])])
MetaEmptyAbi == Obj([output |-> Obj([abi |-> Arr(<<>>)])])
MetaNoAbiDeploy == Obj([output |-> Obj([devdoc |-> DeploymentDoc])])
MetaNoAbi == Obj([compiler |-> Obj([version |-> Str("0.8.28")])])
MetadataDocs == {MetaAbiDeploy, MetaAbi, MetaEmptyAbi, MetaNoAbiDeploy, MetaNoAbi}

BadJson == [t |-> "badjson"]
Reject == [net |-> "reject"]
Http(status, ctype, body) ==
    [net |-> "http", status |-> status, ctype |-> ctype, body |-> body]
ResponseOk(resp) == resp.status >= 200 /\ resp.status <= 299

\* What one request to repo.sourcify.dev can answer.
SourcifyResponses ==
    {Reject, Http(404, "text/html", Null), Http(500, "text/html", Null),
     Http(200, "text/html", Null), Http(200, "application/json", BadJson),
     Http(200, "application/json", Null)}
    \cup {Http(200, "application/json", d) : d \in MetadataDocs}

\* A client that takes a server error for a miss.
FetchSourcifyDataLenient(resp) ==
    IF resp.net = "reject" THEN [k |-> "throw", e |-> Err("fetch failed")]
    ELSE IF ResponseOk(resp) THEN
        IF resp.ctype = "application/json" THEN
            IF resp.body = BadJson THEN [k |-> "throw", e |-> Err("SyntaxError")]
            ELSE [k |-> "return", v |-> resp.body]
        ELSE [k |-> "return", v |-> Null]
    ELSE [k |-> "return", v |-> Null]

\* #fetchSourcifyData(url)
FetchSourcifyData(resp) ==
    IF resp.net = "reject" THEN [k |-> "throw", e |-> Err("fetch failed")]
    ELSE IF ResponseOk(resp) THEN
        IF resp.ctype = "application/json" THEN
            IF resp.body = BadJson THEN [k |-> "throw", e |-> Err("SyntaxError")]
            ELSE [k |-> "return", v |-> resp.body]
        ELSE [k |-> "return", v |-> Null]
    ELSE IF resp.status = 404 THEN [k |-> "return", v |-> Null]
    ELSE [k |-> "throw", e |-> Err("Sourcify request failed")]

\* getFullMatch / getPartialMatch: the answer of the endpoint, fetched.
getFullMatch(answers) == FetchSourcifyData(answers.full)
getPartialMatch(answers) == FetchSourcifyData(answers.partial)

\* A lookup that asks the partial-match endpoint whatever the first answer was.
OnFullMatchAsksBoth(full) ==
    IF full.k = "throw"
    THEN [next |-> "done",
          result |-> [match |-> "error", data |-> Undefined, error |-> full.e]]
    ELSE [next |-> "partial", result |-> NotCalled]

\* Lines 62-65 and 74-77: after getFullMatch ended as `full`, return or go
\* on to the partial match.
OnFullMatch(full) ==
    IF full.k = "throw"
    THEN [next |-> "done",
          result |-> [match |-> "error", data |-> Undefined, error |-> full.e]]
    ELSE IF Truthy(full.v)
    THEN [next |-> "done",
          result |-> [match |-> "full", data |-> full.v, error |-> Undefined]]
    ELSE [next |-> "partial", result |-> NotCalled]

\* Lines 68-77: the result after getPartialMatch ended as `partial`.
OnPartialMatch(partial) ==
    IF partial.k = "throw"
    THEN [match |-> "error", data |-> Undefined, error |-> partial.e]
    ELSE IF Truthy(partial.v)
    THEN [match |-> "partial", data |-> partial.v, error |-> Undefined]
    ELSE [match |-> "none", data |-> Undefined, error |-> Undefined]

\* verifyContract(address, chainId), given what the two endpoints answer.
verifyContract(answers) ==
    LET first == OnFullMatch(getFullMatch(answers))
    IN  IF first.next = "done" THEN first.result
        ELSE OnPartialMatch(getPartialMatch(answers))

\* getDeploymentInfo(address, chainId): a second verifyContract, then the
\* deployment details of its metadata, or null.
getDeploymentInfo(answers) ==
    LET result == verifyContract(answers)
        metadata == result.data
        deployment == Prop(Prop(Prop(metadata, "output"), "devdoc"), "deployment")
        optimizer == Prop(Prop(metadata, "settings"), "optimizer")
    IN  IF result.match \in {"full", "partial"} /\ Truthy(result.data)
        THEN Obj([deploymentBlock |-> OrElse(Prop(deployment, "blockNumber"), Null),
                  transactionHash |-> OrElse(Prop(deployment, "transactionHash"), Null),
                  compilerVersion |-> OrElse(Prop(Prop(metadata, "compiler"), "version"),
                                             Str("unknown")),
                  optimization |-> OrElse(Prop(optimizer, "enabled"), False),
                  optimizationRuns |-> OrElse(Prop(optimizer, "runs"), Undefined),
                  source |-> Str(result.match)])
        ELSE Null

SourcifyAnswers == [full : SourcifyResponses, partial : SourcifyResponses]

-----------------------------------------------------------------------------
(* Explorer client: src/src/core/blockExplorer.js *)

\* Default `retries` of fetchWithRetry.
DefaultRetries == 3

\* The status/message/result envelope of an Etherscan-style API.
Envelope(status, message, result) ==
    Obj([status |-> Str(status), message |-> Str(message), result |-> result])
ExplorerHttp(status, json) == [net |-> "http", status |-> status, json |-> json]

\* One pass of the loop body of fetchWithRetry for attempt i (from 0):
\* "return" a value, "throw" an error to the caller, or "continue" after a wait.
AttemptOutcome(resp, i, retries) ==
    LET last == (i = retries - 1)
        \* an error thrown inside the try block reaches the catch of line 33
        caught(e) == IF last THEN [k |-> "throw", e |-> e] ELSE [k |-> "continue"]
    IN  IF resp.net = "reject" THEN caught(Err("fetch failed"))
        ELSE IF ResponseOk(resp) THEN
            IF resp.json = BadJson THEN caught(Err("SyntaxError"))
            ELSE IF Prop(resp.json, "status") = Str("0")
                    /\ Prop(resp.json, "message") = Str("NOTOK")
                 THEN caught(Err("API Error"))
            ELSE IF Prop(resp.json, "message") = Str("OK")
                    \/ Prop(resp.json, "status") = Str("1")
                 THEN [k |-> "return", v |-> Prop(resp.json, "result")]
            ELSE caught(Err("Unexpected API response structure"))
        ELSE IF resp.status = 404 THEN [k |-> "return", v |-> Null]
        ELSE caught(Err("HTTP Error"))

\* fetchWithRetry(url, options, retries): resps[i+1] answers attempt i.
RECURSIVE FetchLoop(_, _, _)
FetchLoop(resps, i, retries) ==
    IF i >= retries THEN [k |-> "throw", e |-> Err("Max retries reached")]
    ELSE LET out == AttemptOutcome(resps[i + 1], i, retries)
         IN  IF out.k = "continue" THEN FetchLoop(resps, i + 1, retries) ELSE out

fetchWithRetry(resps) == FetchLoop(resps, 0, DefaultRetries)

\* getApiKey(chain.id): the stored or environment key, null when there is
\* none, and an error when the configuration file cannot be loaded.
getApiKey(store) ==
    CASE store = "key" -> [k |-> "return", v |-> Str("KEY")]
      [] store = "nokey" -> [k |-> "return", v |-> Null]
      [] OTHER -> [k |-> "throw", e |-> Err("Configuration file missing.")]

\* new URL(chain.explorerApiUrl) throws a TypeError for a malformed URL.
ValidUrl(url) == url = Str("https://api.explorer/api")

\* Guards that go on to the request without an API key.
ExplorerGuardWithoutKey(ch, store) ==
    LET url == Prop(ch, "explorerApiUrl")
        key == getApiKey(store)
    IN  IF ~Truthy(url) THEN [k |-> "skip"]
        ELSE IF key.k = "throw" THEN [k |-> "throw", e |-> key.e]
        ELSE IF ~ValidUrl(url) THEN [k |-> "throw", e |-> Err("Invalid URL")]
        ELSE [k |-> "go"]

\* The guards every explorer operation starts with (lines 57-73, 110-120,
\* 169-179, 246-259): "skip" returns null, "throw" passes an error to the caller,
\* "go" issues the request.
ExplorerGuard(ch, store) ==
    LET url == Prop(ch, "explorerApiUrl")
        key == getApiKey(store)
    IN  IF ~Truthy(url) THEN [k |-> "skip"]
        ELSE IF key.k = "throw" THEN [k |-> "throw", e |-> key.e]
        ELSE IF ~Truthy(key.v) THEN [k |-> "skip"]
        ELSE IF ~ValidUrl(url) THEN [k |-> "throw", e |-> Err("Invalid URL")]
        ELSE [k |-> "go"]

\* getAbiFromExplorer(address, chain); `fetched` records how the request
\* made through fetchWithRetry ended, if one was made.
getAbiFromExplorer(ch, store, resps) ==
    LET guard == ExplorerGuard(ch, store)
        fetched == fetchWithRetry(resps)
        abiString == fetched.v
        null == [k |-> "return", v |-> Null, fetched |-> fetched]
    IN  IF guard.k = "skip" THEN [k |-> "return", v |-> Null, fetched |-> NotCalled]
        ELSE IF guard.k = "throw" THEN [k |-> "throw", e |-> guard.e, fetched |-> NotCalled]
        ELSE IF fetched.k = "throw" THEN null
        ELSE IF Truthy(abiString) /\ abiString # NotVerifiedText
        THEN IF StartsWith(Trim(abiString.v), "[") /\ EndsWith(Trim(abiString.v), "]")
             THEN [k |-> "return", v |-> abiString, fetched |-> fetched]
             ELSE null
        ELSE null

\* String.prototype.toLowerCase on the address tokens in use.
LowerToken(tok) == IF tok = "0xAB" THEN "0xab" ELSE IF tok = "0xCD" THEN "0xcd" ELSE tok
toLowerCase(x) == Txt([i \in DOMAIN x.v |-> LowerToken(x.v[i])])

Digits == {"0", "1", "2", "3", "4", "5", "6", "7", "8", "9"}
DigitValue(d) == CHOOSE n \in 0..9 : ToString(n) = d

\* value of the longest prefix of digits of toks, continuing from acc
RECURSIVE ReadDigits(_, _, _)
ReadDigits(toks, acc, seen) ==
    IF Len(toks) > 0 /\ Head(toks) \in Digits
    THEN ReadDigits(Tail(toks), acc * 10 + DigitValue(Head(toks)), TRUE)
    ELSE IF seen THEN Num(acc) ELSE NaN

\* parseInt(x, 10): leading white space skipped, then as many digits as there
\* are; NaN when there is none (also for undefined, which reads "undefined").
parseInt(x) == IF x.t = "string" THEN ReadDigits(TrimLeft(x.v), 0, FALSE) ELSE NaN

\* x?.toLowerCase() === address.toLowerCase()
SameAddress(x, addr) == x.t = "string" /\ toLowerCase(x) = toLowerCase(addr)

\* A lookup that takes the first listed transaction for the creation,
\* whatever address it names.
getContractCreationTxAnyFirst(addr, ch, store, resps) ==
    LET guard == ExplorerGuard(ch, store)
        fetched == fetchWithRetry(resps)
        transactions == fetched.v
        firstTx == transactions.v[1]
    IN  IF guard.k = "skip" THEN [k |-> "return", v |-> Null, fetched |-> NotCalled]
        ELSE IF guard.k = "throw" THEN [k |-> "throw", e |-> guard.e, fetched |-> NotCalled]
        ELSE IF fetched.k = "throw" THEN [k |-> "return", v |-> Null, fetched |-> fetched]
        ELSE IF transactions.t = "array" /\ Len(transactions.v) > 0
        THEN [k |-> "return", fetched |-> fetched,
              v |-> Obj([txHash |-> Prop(firstTx, "hash"),
                         blockNumber |-> parseInt(Prop(firstTx, "blockNumber"))])]
        ELSE [k |-> "return", v |-> Null, fetched |-> fetched]

\* getContractCreationTx(address, chain)
getContractCreationTx(addr, ch, store, resps) ==
    LET guard == ExplorerGuard(ch, store)
        fetched == fetchWithRetry(resps)
        transactions == fetched.v
        firstTx == transactions.v[1]
    IN  IF guard.k = "skip" THEN [k |-> "return", v |-> Null, fetched |-> NotCalled]
        ELSE IF guard.k = "throw" THEN [k |-> "throw", e |-> guard.e, fetched |-> NotCalled]
        ELSE IF fetched.k = "throw" THEN [k |-> "return", v |-> Null, fetched |-> fetched]
        ELSE IF transactions.t = "array" /\ Len(transactions.v) > 0
        THEN IF SameAddress(Prop(firstTx, "to"), addr)
                \/ SameAddress(Prop(firstTx, "contractAddress"), addr)
             THEN [k |-> "return", fetched |-> fetched,
                   v |-> Obj([txHash |-> Prop(firstTx, "hash"),
                              blockNumber |-> parseInt(Prop(firstTx, "blockNumber"))])]
             ELSE [k |-> "return", v |-> Null, fetched |-> fetched]
        ELSE [k |-> "return", v |-> Null, fetched |-> fetched]

\* JSON.parse of a SourceCode text "{" field ... "}": the field tokens are
\* "S" (a `sources` map of two files), "L" (language: Solidity) and "F" (one
\* file name mapped to its text). Doubled braces are no JSON.
SourcesMap == Obj([a_sol |-> Obj([content |-> Str("contract A")]),
                   b_sol |-> Obj([content |-> Str("contract B")])])
FieldTokens == {"S", "L", "F"}
SourceFields(toks) ==
    [key \in {CASE toks[i] = "S" -> "sources" [] toks[i] = "L" -> "language"
                [] OTHER -> "f_sol" : i \in DOMAIN toks} |->
        CASE key = "sources" -> SourcesMap
          [] key = "language" -> Str("Solidity")
          [] OTHER -> Str("contract F")]
ParseSourceJson(text) ==
    LET toks == text.v
        n == Len(toks)
        inner == SubSeq(toks, 2, n - 1)
    IN  IF n >= 2 /\ toks[1] = "{" /\ toks[n] = "}" /\ Range(inner) \subseteq FieldTokens
        THEN [k |-> "return", v |-> Obj(SourceFields(inner))]
        ELSE [k |-> "throw", e |-> Err("SyntaxError")]

\* { [`${sourceInfo.ContractName || 'Contract'}.sol`]: sourceInfo.SourceCode }
SingleFile(sourceInfo) == Obj([contract_sol |-> Prop(sourceInfo, "SourceCode")])

\* getSourceCodeFromExplorer(address, chain); `fetched` records how the
\* request made through fetchWithRetry ended, if one was made.
getSourceCodeFromExplorer(ch, store, resps) ==
    LET guard == ExplorerGuard(ch, store)
        fetched == fetchWithRetry(resps)
        results == fetched.v
        sourceInfo == results.v[1]
        code == Prop(sourceInfo, "SourceCode")
        parsed == ParseSourceJson(code)
        jsonData == parsed.v
        sources == Prop(jsonData, "sources")
        return(v) == [k |-> "return", v |-> v, fetched |-> fetched]
    IN  IF guard.k = "skip" THEN [k |-> "return", v |-> Null, fetched |-> NotCalled]
        ELSE IF guard.k = "throw" THEN [k |-> "throw", e |-> guard.e, fetched |-> NotCalled]
        ELSE IF fetched.k = "throw" THEN return(Null)
        ELSE IF ~(results.t = "array" /\ Len(results.v) > 0) THEN return(Null)
        ELSE IF ~Truthy(code) THEN return(Null)
        ELSE IF code.t # "string" THEN return(Null)
        ELSE IF StartsWith(code.v, "{") /\ EndsWith(code.v, "}")
        THEN IF parsed.k = "throw" THEN return(SingleFile(sourceInfo))
             ELSE IF Truthy(sources)
             THEN return(Obj([path \in DOMAIN sources.f |->
                                 Prop(sources.f[path], "content")]))
             ELSE IF Prop(jsonData, "language") = Str("Solidity")
             THEN return(sources)
             ELSE return(jsonData)
        ELSE return(SingleFile(sourceInfo))

\* getLogs(address, chain) with the default fromBlock, toBlock and topics
getLogs(ch, store, resps) ==
    LET guard == ExplorerGuard(ch, store)
        fetched == fetchWithRetry(resps)
        logs == fetched.v
    IN  IF guard.k = "skip" THEN [k |-> "return", v |-> Null, fetched |-> NotCalled]
        ELSE IF guard.k = "throw" THEN [k |-> "throw", e |-> guard.e, fetched |-> NotCalled]
        ELSE IF fetched.k = "throw" THEN [k |-> "return", v |-> Null, fetched |-> fetched]
        ELSE IF Truthy(logs) /\ logs.t = "array"
        THEN [k |-> "return", v |-> logs, fetched |-> fetched]
        ELSE [k |-> "return", v |-> Arr(<<>>), fetched |-> fetched]

-----------------------------------------------------------------------------
(* What the explorer may answer *)

\* Most consecutive failing answers an explorer request is given.
MaxFailures == 3

RateLimited == Envelope("0", "NOTOK", Str("Max rate limit reached"))
\* Answers after which fetchWithRetry tries again.
FailingResponses ==
    {Reject, ExplorerHttp(429, BadJson), ExplorerHttp(500, BadJson),
     ExplorerHttp(200, BadJson), ExplorerHttp(200, RateLimited),
     ExplorerHttp(200, Envelope("0", "NOTOK", NotVerifiedText)),
     ExplorerHttp(200, Envelope("0", "No transactions found", Arr(<<>>)))}

\* n failing answers `fail`, then `final` for every later attempt.
Answers(n, fail, final) == [i \in 1..(MaxFailures + 1) |-> IF i <= n THEN fail ELSE final]

\* All the ways a request can be answered when `results` are the payloads of
\* a successful answer.
AnswerSeqs(results) ==
    {Answers(n, fail, final) :
        n \in 0..MaxFailures, fail \in FailingResponses,
        final \in {ExplorerHttp(404, BadJson)}
                  \cup {ExplorerHttp(200, Envelope("1", "OK", r)) : r \in results}}

\* `result` of action=getabi
AbiTexts ==
    {NotVerifiedText, Txt(<<>>), Txt(<<"[", "]">>), Txt(<<"[", "f", "]">>),
     Txt(<<" ", "[", "f", ",", "v", "]", " ">>), Txt(<<"[", "x", "]">>),
     Txt(<<"x">>)}

\* `result` of action=txlist
Tx(to, contractAddress, hash, blockNumber) ==
    Obj([to |-> to, contractAddress |-> contractAddress, hash |-> hash,
         blockNumber |-> blockNumber])
TxLists ==
    {Arr(<<>>), Null, Str("Error!"),
     Arr(<<Tx(Str(""), Str("0xab"), Str("0xtx"), Txt(<<"1", "2">>))>>),
     Arr(<<Tx(Str("0xAB"), Str(""), Str("0xtx"), Txt(<<"7">>))>>),
     Arr(<<Tx(Str("0xcd"), Str(""), Str("0xtx"), Txt(<<"7">>))>>),
     Arr(<<Tx(Str("0xab"), Str(""), Undefined, Txt(<<>>))>>),
     Arr(<<Tx(Str("0xab"), Str(""), Undefined, Txt(<<"9">>))>>)}

\* `result` of action=getsourcecode
SourceInfo(code) == Obj([SourceCode |-> code, ContractName |-> Str("C")])
SourceResults ==
    {Arr(<<>>), Null,
     Arr(<<SourceInfo(Txt(<<>>))>>),
     Arr(<<SourceInfo(Txt(<<"contract", "C">>))>>),
     Arr(<<SourceInfo(Txt(<<"{", "S", "L", "}">>))>>),
     Arr(<<SourceInfo(Txt(<<"{", "L", "}">>))>>),
     Arr(<<SourceInfo(Txt(<<"{", "F", "}">>))>>),
     Arr(<<SourceInfo(Txt(<<"{", "{", "S", "L", "}", "}">>))>>)}

\* `result` of action=getLogs
LogResults ==
    {Arr(<<>>), Null, Str("Error!"),
     Arr(<<Obj([address |-> Str("0xab"), blockNumber |-> Str("0x10")])>>)}

Addresses == {Str("0xAB"), Str("0xab")}
Chains ==
    {Null,
     Obj([id |-> Num(1), explorerApiUrl |-> Str("https://api.explorer/api")]),
     Obj([id |-> Num(1), explorerApiUrl |-> Str("not a url")]),
     Obj([id |-> Num(1)])}
KeyStores == {"key", "nokey", "missing"}

-----------------------------------------------------------------------------
(* VerificationService.getVerificationData: src/src/core/verification.js *)

InitialResponse ==
    [source |-> "none", status |-> "unverified",
     data |-> [abi |-> Undefined, metadata |-> Undefined, sourceCode |-> Undefined],
     deployment |-> Obj([source |-> Str("unknown")]),
     error |-> Null]

\* { ...dep, source: src }
WithSource(dep, src) ==
    Obj([key \in DOMAIN dep.f \cup {"source"} |->
            IF key = "source" THEN Str(src) ELSE dep.f[key]])

\* The test of lines 44 and 119: dep?.txHash || dep?.blockNumber
HasDeployment(dep) == Truthy(Prop(dep, "txHash")) \/ Truthy(Prop(dep, "blockNumber"))

\* Lines 35-50: a full or partial match.
OnSourcifyMatch(resp, result, sourcifyDeployment) ==
    LET abi == Prop(Prop(result.data, "output"), "abi")
        r1 == [resp EXCEPT !.source = "sourcify", !.status = result.match,
                           !.data.metadata = result.data,
                           !.data.abi = IF Truthy(abi) THEN abi ELSE @]
    IN  IF HasDeployment(sourcifyDeployment)
        THEN [r1 EXCEPT !.deployment = WithSource(sourcifyDeployment, "sourcify")]
        ELSE r1

\* A resolver that records the registry fault but goes on to the explorer.
OnSourcifyErrorFallsThrough(resp, error) ==
    [response |-> [resp EXCEPT !.source = "sourcify", !.status = "error", !.error = error],
     pc |-> "abi"]

\* A resolver that still looks for the creation transaction after a registry
\* fault.
OnSourcifyErrorSeeksDeployment(resp, error) ==
    [response |-> [resp EXCEPT !.source = "sourcify", !.status = "error", !.error = error],
     pc |-> "deployment"]

\* Lines 51-55 and 60-65: the registry attempt faulted; the run ends here.
OnSourcifyError(resp, error) ==
    [response |-> [resp EXCEPT !.source = "sourcify", !.status = "error", !.error = error],
     pc |-> "done"]

\* Lines 31-66: step 1, given what the registry answers to the lookup and to
\* the second lookup made by getDeploymentInfo.
SourcifyBlock(resp, ch, lookup, again) ==
    LET result == verifyContract(lookup)
    IN  IF ch.t # "object" THEN OnSourcifyError(resp, Err("TypeError"))
        ELSE IF result.match \in {"full", "partial"}
        THEN [response |-> OnSourcifyMatch(resp, result, getDeploymentInfo(again)),
              pc |-> "abi"]
        ELSE IF result.match = "error" THEN OnSourcifyError(resp, result.error)
        ELSE [response |-> [resp EXCEPT !.source = "none"], pc |-> "abi"]

\* Line 71: is the explorer asked for the ABI?
NeedsExplorerAbi(resp) == resp.status = "unverified" \/ ~Truthy(resp.data.abi)

\* A fallback that reports 'verified' before the ABI string has parsed.
ExplorerAbiBlockUnparsed(resp, call) ==
    LET r1 == [resp EXCEPT !.source = "blockExplorer"]
        parsed == JSONParse(call.v)
    IN  IF call.k = "throw"
        THEN [response |-> [r1 EXCEPT !.status = "error", !.error = call.e],
              fetched |-> FALSE]
        ELSE IF Truthy(call.v)
        THEN [response |-> [r1 EXCEPT !.status = "verified",
                                      !.data.abi = IF parsed.k = "return" THEN parsed.v ELSE @,
                                      !.error = IF parsed.k = "return" THEN @ ELSE parsed.e],
              fetched |-> TRUE]
        ELSE [response |-> [r1 EXCEPT !.source = "none"], fetched |-> FALSE]

\* A fallback that leaves source 'blockExplorer' when no ABI was found.
ExplorerAbiBlockKeepsSource(resp, call) ==
    LET r1 == [resp EXCEPT !.source = "blockExplorer"]
        parsed == JSONParse(call.v)
    IN  IF call.k = "throw"
        THEN [response |-> [r1 EXCEPT !.status = "error", !.error = call.e],
              fetched |-> FALSE]
        ELSE IF Truthy(call.v)
        THEN IF parsed.k = "return"
             THEN [response |-> [r1 EXCEPT !.data.abi = parsed.v, !.status = "verified"],
                   fetched |-> TRUE]
             ELSE [response |-> [r1 EXCEPT !.status = "error", !.error = parsed.e],
                   fetched |-> FALSE]
        ELSE [response |-> r1, fetched |-> FALSE]

\* A fallback that marks the run failed without keeping the error thrown by
\* getAbiFromExplorer.
ExplorerAbiBlockDropsError(resp, call) ==
    LET r1 == [resp EXCEPT !.source = "blockExplorer"]
        parsed == JSONParse(call.v)
    IN  IF call.k = "throw"
        THEN [response |-> [r1 EXCEPT !.status = "error"], fetched |-> FALSE]
        ELSE IF Truthy(call.v)
        THEN IF parsed.k = "return"
             THEN [response |-> [r1 EXCEPT !.data.abi = parsed.v, !.status = "verified"],
                   fetched |-> TRUE]
             ELSE [response |-> [r1 EXCEPT !.status = "error", !.error = parsed.e],
                   fetched |-> FALSE]
        ELSE [response |-> [r1 EXCEPT !.source = "none"], fetched |-> FALSE]

\* Lines 73-95: the response after getAbiFromExplorer ended as `call`.
ExplorerAbiBlock(resp, call) ==
    LET r1 == [resp EXCEPT !.source = "blockExplorer"]
        parsed == JSONParse(call.v)
    IN  IF call.k = "throw"
        THEN [response |-> [r1 EXCEPT !.status = "error", !.error = call.e],
              fetched |-> FALSE]
        ELSE IF Truthy(call.v)
        THEN IF parsed.k = "return"
             THEN [response |-> [r1 EXCEPT !.data.abi = parsed.v, !.status = "verified"],
                   fetched |-> TRUE]
             ELSE [response |-> [r1 EXCEPT !.status = "error", !.error = parsed.e],
                   fetched |-> FALSE]
        ELSE [response |-> [r1 EXCEPT !.source = "none"], fetched |-> FALSE]

\* Lines 101-111: the response after getSourceCodeFromExplorer ended as `call`.
ExplorerSourceBlock(resp, call) ==
    IF call.k = "return" /\ Truthy(call.v)
    THEN [resp EXCEPT !.data.sourceCode = call.v]
    ELSE resp

\* Line 115: is the explorer asked for the creation transaction?
NeedsExplorerDeployment(resp) == Prop(resp.deployment, "source") = Str("unknown")

\* A deployment step that fails the run when getContractCreationTx finds
\* nothing or throws.
ExplorerDeploymentBlockFailsRun(resp, call) ==
    IF call.k = "return" /\ HasDeployment(call.v)
    THEN [resp EXCEPT !.deployment = WithSource(call.v, "blockExplorer")]
    ELSE [resp EXCEPT !.status = "error", !.error = Err("creation lookup failed")]

\* A deployment step that records a lookup that threw as deployment source
\* 'error'.
ExplorerDeploymentBlockMarksError(resp, call) ==
    IF call.k = "return" /\ HasDeployment(call.v)
    THEN [resp EXCEPT !.deployment = WithSource(call.v, "blockExplorer")]
    ELSE IF call.k = "throw"
    THEN [resp EXCEPT !.deployment = Obj([source |-> Str("error")])]
    ELSE resp

\* Lines 117-130: the response after getContractCreationTx ended as `call`.
ExplorerDeploymentBlock(resp, call) ==
    IF call.k = "return" /\ HasDeployment(call.v)
    THEN [resp EXCEPT !.deployment = WithSource(call.v, "blockExplorer")]
    ELSE resp

VsInit ==
    /\ pc = "sourcify"
    /\ address \in Addresses
    /\ chain \in Chains
    /\ keyStore \in KeyStores
    /\ response = InitialResponse
    /\ fetchedAbiFromExplorer = FALSE
    /\ sourcifyResult = NotCalled
    /\ abiFetch = NotCalled
    /\ creation = NotCalled
    /\ calls = <<>>

\* 1. Try Sourcify
Sourcify ==
    /\ pc = "sourcify"
    /\ \E lookup \in SourcifyAnswers :
        LET result == verifyContract(lookup)
            matched == chain.t = "object" /\ result.match \in {"full", "partial"}
        IN  \E again \in IF matched THEN SourcifyAnswers ELSE {lookup} :
              LET out == SourcifyBlock(response, chain, lookup, again) IN
                /\ response' = out.response
                /\ pc' = out.pc
                /\ sourcifyResult' =
                      IF chain.t # "object" THEN [k |-> "threw"]
                      ELSE [k |-> "returned", v |-> result,
                            deployment |-> IF matched THEN getDeploymentInfo(again)
                                           ELSE NotCalled]
                /\ calls' = IF chain.t # "object" THEN calls
                            ELSE IF matched
                            THEN calls \o <<"verifyContract", "getDeploymentInfo">>
                            ELSE calls \o <<"verifyContract">>
    /\ UNCHANGED <<address, chain, keyStore, fetchedAbiFromExplorer, abiFetch, creation>>

\* 2. Try Block Explorer Fallback (for ABI)
ExplorerAbi ==
    /\ pc = "abi"
    /\ pc' = "source"
    /\ IF NeedsExplorerAbi(response)
       THEN \E resps \in AnswerSeqs(AbiTexts) :
               LET call == getAbiFromExplorer(chain, keyStore, resps)
                   out == ExplorerAbiBlock(response, call)
               IN  /\ response' = out.response
                   /\ fetchedAbiFromExplorer' = out.fetched
                   /\ abiFetch' = call
                   /\ calls' = Append(calls, "getAbiFromExplorer")
       ELSE UNCHANGED <<response, fetchedAbiFromExplorer, abiFetch, calls>>
    /\ UNCHANGED <<address, chain, keyStore, sourcifyResult, creation>>

\* 2b. Try Block Explorer for Source Code (if ABI came from explorer)
ExplorerSource ==
    /\ pc = "source"
    /\ pc' = "deployment"
    /\ IF fetchedAbiFromExplorer
       THEN \E resps \in AnswerSeqs(SourceResults) :
               /\ response' = ExplorerSourceBlock(response,
                                  getSourceCodeFromExplorer(chain, keyStore, resps))
               /\ calls' = Append(calls, "getSourceCodeFromExplorer")
       ELSE UNCHANGED <<response, calls>>
    /\ UNCHANGED <<address, chain, keyStore, fetchedAbiFromExplorer, sourcifyResult,
                   abiFetch, creation>>

\* 3. Try Block Explorer for Deployment Info, then return response
ExplorerDeployment ==
    /\ pc = "deployment"
    /\ pc' = "done"
    /\ IF NeedsExplorerDeployment(response)
       THEN \E resps \in AnswerSeqs(TxLists) :
               LET call == getContractCreationTx(address, chain, keyStore, resps)
               IN  /\ response' = ExplorerDeploymentBlock(response, call)
                   /\ creation' = call
                   /\ calls' = Append(calls, "getContractCreationTx")
       ELSE UNCHANGED <<response, creation, calls>>
    /\ UNCHANGED <<address, chain, keyStore, fetchedAbiFromExplorer, sourcifyResult,
                   abiFetch>>


-----------------------------------------------------------------------------
(* getContractInfo and combineAbis: src/contractInfo.js *)

\* types.join(','): the type texts of `inputs`, separated by commas
RECURSIVE JoinTypes(_)
JoinTypes(inputs) ==
    IF Len(inputs) = 0 THEN <<>>
    ELSE IF Len(inputs) = 1 THEN Prop(Head(inputs), "type").v
    ELSE Prop(Head(inputs), "type").v \o <<",">> \o JoinTypes(Tail(inputs))

\* The uniqueness key processEntry builds for an ABI entry; <<>> when the
\* entry is of no known kind (lines 362-375).
EntrySignature(entry) ==
    LET type == Prop(entry, "type")
        inputs == Prop(entry, "inputs")
        params == IF Truthy(inputs) THEN <<"(">> \o JoinTypes(inputs.v) \o <<")">> ELSE <<>>
    IN  IF type \in {Str("function"), Str("event"), Str("error")}
        THEN type.v \o <<":">> \o Prop(entry, "name").v \o params
        ELSE IF type = Str("constructor") THEN <<"constructor">> \o params
        ELSE IF type \in {Str("receive"), Str("fallback")} THEN type.v
        ELSE <<>>

\* entries.forEach(processEntry), starting from `combined`
RECURSIVE ProcessEntries(_, _)
ProcessEntries(entries, combined) ==
    IF Len(entries) = 0 THEN combined
    ELSE LET entry == Head(entries)
             signature == EntrySignature(entry)
             seen == {EntrySignature(combined[i]) : i \in DOMAIN combined}
         IN  ProcessEntries(Tail(entries),
                            IF Len(signature) > 0 /\ signature \notin seen
                            THEN Append(combined, entry)
                            ELSE combined)

\* A merge that gives the proxy's entries the priority.
combineAbisProxyFirst(proxyAbi, implementationAbi) ==
    IF ~Truthy(proxyAbi) /\ ~Truthy(implementationAbi) THEN Null
    ELSE IF ~Truthy(implementationAbi) THEN proxyAbi
    ELSE IF ~Truthy(proxyAbi) THEN implementationAbi
    ELSE Arr(ProcessEntries(implementationAbi.v, ProcessEntries(proxyAbi.v, <<>>)))

\* A merge that yields nothing unless both ABIs are there.
combineAbisNeedsBoth(proxyAbi, implementationAbi) ==
    IF ~Truthy(proxyAbi) \/ ~Truthy(implementationAbi) THEN Null
    ELSE Arr(ProcessEntries(proxyAbi.v, ProcessEntries(implementationAbi.v, <<>>)))

\* combineAbis(proxyAbi, implementationAbi); an ABI is null or an array.
combineAbis(proxyAbi, implementationAbi) ==
    IF ~Truthy(proxyAbi) /\ ~Truthy(implementationAbi) THEN Null
    ELSE IF ~Truthy(implementationAbi) THEN proxyAbi
    ELSE IF ~Truthy(proxyAbi) THEN implementationAbi
    ELSE Arr(ProcessEntries(proxyAbi.v, ProcessEntries(implementationAbi.v, <<>>)))

\* ethers.id(signature).slice(0, 10): the first four bytes of the hash
SignatureHash(signature) == [t |-> "keccak4", of |-> signature]

\* extractEventSignatures(abi)
RECURSIVE extractEventSignatures(_)
extractEventSignatures(entries) ==
    IF Len(entries) = 0 THEN <<>>
    ELSE LET event == Head(entries)
             inputs == IF Truthy(Prop(event, "inputs")) THEN Prop(event, "inputs").v ELSE <<>>
             signature == Prop(event, "name").v \o <<"(">> \o JoinTypes(inputs) \o <<")">>
             rest == extractEventSignatures(Tail(entries))
         IN  IF Prop(event, "type") = Str("event")
             THEN <<Obj([name |-> Prop(event, "name"),
                         signature |-> Txt(signature),
                         signatureHash |-> SignatureHash(signature)])>> \o rest
             ELSE rest

CryptoPunks == Str("0xb47e3cd837ddf8e4c57f05d70ab865de6e193bbb")
CommonEvent(name, types) ==
    Obj([name |-> Str(name), signature |-> Txt(<<name, "(">> \o types \o <<")">>),
         signatureHash |-> SignatureHash(<<name, "(">> \o types \o <<")">>)])
\* getCommonNFTEventSignatures(contractAddress)
getCommonNFTEventSignatures(contractAddress) ==
    LET commonEvents ==
            <<CommonEvent("Transfer", <<"address", ",", "address", ",", "uint256">>),
              CommonEvent("Approval", <<"address", ",", "address", ",", "uint256">>),
              CommonEvent("ApprovalForAll", <<"address", ",", "address", ",", "bool">>)>>
    IN  IF toLowerCase(contractAddress) = CryptoPunks
        THEN commonEvents \o
             <<CommonEvent("Assign", <<"address", ",", "uint256">>),
               CommonEvent("PunkTransfer", <<"address", ",", "address", ",", "uint256">>),
               CommonEvent("PunkBought",
                           <<"uint256", ",", "uint256", ",", "address", ",", "address">>)>>
        ELSE commonEvents

\* ethers.isAddress(x): the tokens that are well-formed addresses
AddressTokens == {"0xab", "0xAB", "0xcd", "0xCD", "0xb47e3cd837ddf8e4c57f05d70ab865de6e193bbb"}
isAddress(x) == x.t = "string" /\ Len(x.v) = 1 /\ x.v[1] \in AddressTokens

\* String.prototype.includes for a marker that is one token of the text
Includes(text, marker) == text.t = "string" /\ marker \in Range(text.v)

\* Lines 116-130: the argument checks; an error or nothing.
ValidateArguments(contractAddress, explorerApiKey) ==
    IF ~Truthy(contractAddress) \/ ~isAddress(contractAddress)
    THEN [k |-> "throw", e |-> Err("VALIDATION_ERROR")]
    ELSE IF ~Truthy(explorerApiKey) THEN [k |-> "throw", e |-> Err("API_KEY_ERROR")]
    ELSE IF Includes(explorerApiKey, "your-")
    THEN [k |-> "throw", e |-> Err("API_KEY_ERROR")]
    ELSE [k |-> "ok"]

\* Lines 186-196: isVerified and the parsed ABI of the contract.
ParseContractAbi(contractData) ==
    LET text == Prop(contractData, "ABI")
        isVerified == text # NotVerifiedText
        parsed == IF text.t = "string" THEN JSONParse(text)
                  ELSE [k |-> "throw", e |-> Err("SyntaxError")]
    IN  [isVerified |-> isVerified,
         abi |-> IF isVerified /\ text # Txt(<<>>) /\ parsed.k = "return"
                 THEN parsed.v ELSE Null]

\* Lines 136-196: the getsourcecode request for the contract itself.
\* "throw", "return" of the limited-information object, or "continue".
FetchContract(contractAddress, explorerApiKey, resp) ==
    LET checked == ValidateArguments(contractAddress, explorerApiKey)
        data == resp.json
        result == Prop(data, "result")
    IN  IF checked.k = "throw" THEN checked
        ELSE IF resp.net = "reject" THEN [k |-> "throw", e |-> Err("NETWORK_ERROR")]
        ELSE IF ~ResponseOk(resp) THEN [k |-> "throw", e |-> Err("NETWORK_ERROR")]
        ELSE IF data = BadJson THEN [k |-> "throw", e |-> Err("NETWORK_ERROR")]
        ELSE IF ~(result.t = "array" /\ Len(result.v) > 0)
        THEN [k |-> "return",
              v |-> Obj([isVerified |-> False, abi |-> Null, proxy |-> False,
                         implementation |-> Txt(<<>>),
                         eventSignatures |->
                             Arr(getCommonNFTEventSignatures(contractAddress))])]
        ELSE [k |-> "continue", contractData |-> result.v[1]]

\* A detection that knows the Implementation field and delegatecall only.
DetectProxyWithoutMarkers(contractData) ==
    LET impl == Prop(contractData, "Implementation")
        source == Prop(contractData, "SourceCode")
    IN  IF Truthy(impl) THEN [isProxy |-> TRUE, implementation |-> impl]
        ELSE IF Truthy(source) /\ Includes(source, "delegatecall")
        THEN [isProxy |-> TRUE, implementation |-> Txt(<<>>)]
        ELSE [isProxy |-> FALSE, implementation |-> Txt(<<>>)]

\* Lines 199-236: proxy detection, first matching tier wins.
DetectProxy(contractData) ==
    LET impl == Prop(contractData, "Implementation")
        source == Prop(contractData, "SourceCode")
    IN  IF Truthy(impl) THEN [isProxy |-> TRUE, implementation |-> impl]
        ELSE IF Truthy(source) /\ Includes(source, "delegatecall")
        THEN [isProxy |-> TRUE, implementation |-> Txt(<<>>)]
        ELSE IF Truthy(source)
                /\ (\/ Includes(source, "upgradeable")
                    \/ Includes(source, "ERC1967Proxy")
                    \/ Includes(source, "TransparentUpgradeableProxy"))
        THEN [isProxy |-> TRUE, implementation |-> Txt(<<>>)]
        ELSE [isProxy |-> FALSE, implementation |-> Txt(<<>>)]

NoImplementation ==
    [implementationAbi |-> Null, combinedAbi |-> Null, implementationVerified |-> False,
     implementationContractName |-> Txt(<<>>)]

\* Line 244: is the implementation fetched?
FetchesImplementation(isProxy, implementation) ==
    isProxy /\ Truthy(implementation) /\ isAddress(implementation)

\* The behaviour before 1.2.0: a combined ABI even when the implementation
\* fetch failed.
FetchImplementationAlwaysCombines(abi, resp) ==
    LET implData == resp.json
        result == Prop(implData, "result")
        implContractData == IF result.t = "array" THEN result.v[1] ELSE Undefined
        text == Prop(implContractData, "ABI")
        parsed == JSONParse(text)
        failed == [NoImplementation EXCEPT !.combinedAbi = combineAbis(abi, Null)]
    IN  IF resp.net = "reject" \/ ~ResponseOk(resp) \/ implData = BadJson THEN failed
        ELSE IF ~(/\ Prop(implData, "status") = Str("1")
                  /\ result.t = "array"
                  /\ Len(result.v) > 0)
        THEN failed
        ELSE IF Truthy(text) /\ text # NotVerifiedText /\ parsed.k = "return"
        THEN [NoImplementation EXCEPT !.implementationAbi = parsed.v,
                                      !.implementationVerified = True,
                                      !.combinedAbi = combineAbis(abi, parsed.v)]
        ELSE failed

\* Lines 246-290: the getsourcecode request for the implementation, answered
\* by `resp`, and the combined ABI.
FetchImplementation(abi, resp) ==
    LET implData == resp.json
        result == Prop(implData, "result")
        implContractData == IF result.t = "array" THEN result.v[1] ELSE Undefined
        text == Prop(implContractData, "ABI")
        parsed == JSONParse(text)
        named == [NoImplementation EXCEPT !.implementationContractName =
                        OrElse(Prop(implContractData, "ContractName"), Txt(<<>>))]
    IN  IF resp.net = "reject" THEN NoImplementation
        ELSE IF ~ResponseOk(resp) THEN NoImplementation
        ELSE IF implData = BadJson THEN NoImplementation
        ELSE IF ~(/\ Prop(implData, "status") = Str("1")
                  /\ Truthy(result)
                  /\ result.t \in {"array", "string"}
                  /\ Len(result.v) > 0)
        THEN NoImplementation
        ELSE IF Truthy(text) /\ text # NotVerifiedText
        THEN IF parsed.k = "return"
             THEN [named EXCEPT !.implementationAbi = parsed.v,
                                !.implementationVerified = True,
                                !.combinedAbi = combineAbis(abi, parsed.v)]
             ELSE named
        ELSE named

\* Lines 293-304: the event signatures of the result.
EventSignatures(contractAddress, abi, combinedAbi) ==
    LET abiToUseForEvents == OrElse(combinedAbi, abi)
        eventSignatures == IF Truthy(abiToUseForEvents)
                           THEN extractEventSignatures(abiToUseForEvents.v)
                           ELSE <<>>
    IN  IF Len(eventSignatures) = 0
        THEN getCommonNFTEventSignatures(contractAddress)
        ELSE eventSignatures

\* Lines 307-330: the result object.
ResultObject(l) ==
    Obj([isVerified |-> Bool(l.isVerified), abi |-> l.abi, proxy |-> Bool(l.isProxy),
         implementation |-> l.implementation,
         implementationAbi |-> l.implementationAbi,
         combinedAbi |-> l.combinedAbi,
         implementationVerified |-> l.implementationVerified,
         implementationContractName |-> l.implementationContractName,
         eventSignatures |-> Arr(EventSignatures(l.contractAddress, l.abi, l.combinedAbi))])

(* What the explorer may answer to getContractInfo *)

InfoAddresses == {Str("0xab"), CryptoPunks, Str("nonsense"), Null}
ApiKeys == {Str("KEY"), Txt(<<"your-", "key">>), Txt(<<>>), Null}
ContractAbiTexts ==
    {NotVerifiedText, Txt(<<>>), Txt(<<"[", "f", "]">>),
     Txt(<<"[", "f", ",", "v", ",", "u", "]">>), Txt(<<"[", "x", "]">>)}
ContractData(abi, impl, code) ==
    Obj([ABI |-> abi, Implementation |-> impl, SourceCode |-> code,
         ContractName |-> Str("C")])
ContractDatas ==
    {ContractData(abi, impl, code) :
        abi \in ContractAbiTexts,
        impl \in {Txt(<<>>), Str("0xcd"), Str("not-an-address")},
        code \in {Txt(<<>>), Txt(<<"contract">>), Txt(<<"contract", "delegatecall">>),
                  Txt(<<"contract", "ERC1967Proxy">>), Txt(<<"contract", "upgradeable">>),
                  Txt(<<"TransparentUpgradeableProxy", "delegatecall">>)}}
ContractResponses ==
    {Reject, ExplorerHttp(500, BadJson), ExplorerHttp(200, BadJson),
     ExplorerHttp(200, RateLimited),
     ExplorerHttp(200, Envelope("1", "OK", Arr(<<>>)))}
    \cup {ExplorerHttp(200, Envelope("1", "OK", Arr(<<cd>>))) : cd \in ContractDatas}
ImplementationData(abi) == Obj([ABI |-> abi, ContractName |-> Str("Impl")])
ImplementationResponses ==
    {Reject, ExplorerHttp(500, BadJson), ExplorerHttp(200, BadJson),
     ExplorerHttp(200, RateLimited),
     ExplorerHttp(200, Envelope("1", "OK", Arr(<<>>))),
     ExplorerHttp(200, Envelope("1", "OK", Null)),
     ExplorerHttp(200, Envelope("1", "OK", Str("Invalid API Key"))),
     ExplorerHttp(200, Envelope("0", "NOTOK",
                                Arr(<<ImplementationData(Txt(<<"[", "f", "]">>))>>))),
     ExplorerHttp(200, Envelope("1", "OK", Arr(<<Obj([ContractName |-> Str("Impl")])>>)))}
    \cup {ExplorerHttp(200, Envelope("1", "OK", Arr(<<ImplementationData(abi)>>))) :
            abi \in ContractAbiTexts \cup {Txt(<<" ", "[", "v", ",", "f", "]">>)}}

CiInit ==
    /\ ipc = "start"
    /\ \E a \in InfoAddresses, key \in ApiKeys :
        info = [contractAddress |-> a, explorerApiKey |-> key,
                contractData |-> Undefined, isVerified |-> FALSE, abi |-> Null,
                isProxy |-> FALSE, implementation |-> Txt(<<>>),
                implResponse |-> NotCalled,
                implementationAbi |-> Null, combinedAbi |-> Null,
                implementationVerified |-> False,
                implementationContractName |-> Txt(<<>>),
                result |-> Undefined, error |-> Null]

\* Argument checks and the request for the contract (lines 114-196).
FetchContractStep ==
    /\ ipc = "start"
    /\ \E resp \in ContractResponses :
        LET out == FetchContract(info.contractAddress, info.explorerApiKey, resp)
            parsed == ParseContractAbi(out.contractData)
        IN  CASE out.k = "throw" ->
                   /\ ipc' = "threw"
                   /\ info' = [info EXCEPT !.error = out.e]
              [] out.k = "return" ->
                   /\ ipc' = "done"
                   /\ info' = [info EXCEPT !.result = out.v]
              [] OTHER ->
                   /\ ipc' = "detect"
                   /\ info' = [info EXCEPT !.contractData = out.contractData,
                                           !.isVerified = parsed.isVerified,
                                           !.abi = parsed.abi]

\* Proxy detection (lines 198-236).
DetectProxyStep ==
    /\ ipc = "detect"
    /\ ipc' = "implementation"
    /\ LET found == DetectProxy(info.contractData)
       IN  info' = [info EXCEPT !.isProxy = found.isProxy,
                                !.implementation = found.implementation]

\* Implementation ABI and combined ABI (lines 238-291).
ImplementationStep ==
    /\ ipc = "implementation"
    /\ ipc' = "result"
    /\ IF FetchesImplementation(info.isProxy, info.implementation)
       THEN \E resp \in ImplementationResponses :
               LET out == FetchImplementation(info.abi, resp)
               IN  info' = [info EXCEPT
                              !.implResponse = resp,
                              !.implementationAbi = out.implementationAbi,
                              !.combinedAbi = out.combinedAbi,
                              !.implementationVerified = out.implementationVerified,
                              !.implementationContractName = out.implementationContractName]
       ELSE UNCHANGED info

\* Event signatures and the result object (lines 293-330).
ResultStep ==
    /\ ipc = "result"
    /\ ipc' = "done"
    /\ info' = [info EXCEPT !.result = ResultObject(info)]

-----------------------------------------------------------------------------
(* verifyContract, request by request: src/src/core/sourcify.js 57-79 *)

VfInit ==
    /\ vpc = "full"
    /\ \E answers \in SourcifyAnswers :
          verify = [answers |-> answers, queried |-> <<>>, result |-> NotCalled]

\* 1. Try full match
FullMatchStep ==
    /\ vpc = "full"
    /\ LET out == OnFullMatch(getFullMatch(verify.answers))
       IN  /\ vpc' = out.next
           /\ verify' = [verify EXCEPT !.queried = Append(@, "full"),
                                       !.result = out.result]

\* 2. Try partial match  3. No match found
PartialMatchStep ==
    /\ vpc = "partial"
    /\ vpc' = "done"
    /\ verify' = [verify EXCEPT
                    !.queried = Append(@, "partial"),
                    !.result = OnPartialMatch(getPartialMatch(verify.answers))]

-----------------------------------------------------------------------------
(* The explorer operations called on their own: blockExplorer.js 56-297 *)

XInit == xpc = "ready" /\ xcall = [op |-> "none", out |-> NotCalled]

CallGetAbiFromExplorer ==
    /\ xpc = "ready"
    /\ xpc' = "called"
    /\ \E resps \in AnswerSeqs(AbiTexts) :
          xcall' = [op |-> "getAbiFromExplorer",
                    out |-> getAbiFromExplorer(chain, keyStore, resps)]

CallGetSourceCodeFromExplorer ==
    /\ xpc = "ready"
    /\ xpc' = "called"
    /\ \E resps \in AnswerSeqs(SourceResults) :
          xcall' = [op |-> "getSourceCodeFromExplorer",
                    out |-> getSourceCodeFromExplorer(chain, keyStore, resps)]

CallGetContractCreationTx ==
    /\ xpc = "ready"
    /\ xpc' = "called"
    /\ \E resps \in AnswerSeqs(TxLists) :
          xcall' = [op |-> "getContractCreationTx",
                    out |-> getContractCreationTx(address, chain, keyStore, resps)]

CallGetLogs ==
    /\ xpc = "ready"
    /\ xpc' = "called"
    /\ \E resps \in AnswerSeqs(LogResults) :
          xcall' = [op |-> "getLogs", out |-> getLogs(chain, keyStore, resps)]

-----------------------------------------------------------------------------
(* fetchWithRetry, attempt by attempt: src/src/core/blockExplorer.js 5-42 *)

\* Largest `retries` argument.
MaxRetries == 3

\* A wait that does not grow with the attempt number.
BackoffConstant(delay, i) == delay

\* delay * Math.pow(2, i): the wait after the failed attempt i
Backoff(delay, i) == delay * 2^i

AbiResult == Txt(<<"[", "f", "]">>)
TooManyRequests == ExplorerHttp(429, BadJson)

\* What one attempt can be answered.
RetryResponses ==
    {Reject, TooManyRequests, ExplorerHttp(200, RateLimited),
     ExplorerHttp(404, BadJson), ExplorerHttp(200, Envelope("1", "OK", AbiResult))}

RtInit ==
    /\ rpc = "loop"
    /\ \E retries \in 0..MaxRetries, delay \in {250, 1000},
          resps \in [1..(MaxRetries + 1) -> RetryResponses] :
          retry = [retries |-> retries, delay |-> delay, resps |-> resps, i |-> 0,
                   attempts |-> 0, inFlight |-> 0, waits |-> <<>>,
                   outcome |-> NotCalled]

\* Line 6 and line 8: the loop test, then `await fetch(url, options)` is
\* issued; line 41 when the loop is left.
AttemptStep ==
    /\ rpc = "loop"
    /\ IF retry.i < retry.retries
       THEN /\ rpc' = "fetching"
            /\ retry' = [retry EXCEPT !.attempts = @ + 1, !.inFlight = @ + 1]
       ELSE /\ rpc' = "done"
            /\ retry' = [retry EXCEPT
                            !.outcome = [k |-> "throw", e |-> Err("Max retries reached")]]

\* Lines 9-39: the request of attempt i has settled.
SettleStep ==
    /\ rpc = "fetching"
    /\ LET out == AttemptOutcome(retry.resps[retry.i + 1], retry.i, retry.retries)
       IN  IF out.k = "continue"
           THEN /\ rpc' = "waiting"
                /\ retry' = [retry EXCEPT
                                !.inFlight = @ - 1,
                                !.waits = Append(@, Backoff(retry.delay, retry.i))]
           ELSE /\ rpc' = "done"
                /\ retry' = [retry EXCEPT !.inFlight = @ - 1, !.outcome = out]

\* Lines 18-19 and 38: the timer has fired; the loop goes on with i + 1.
WakeStep ==
    /\ rpc = "waiting"
    /\ rpc' = "loop"
    /\ retry' = [retry EXCEPT !.i = @ + 1]

-----------------------------------------------------------------------------
(* combineAbis and extractEventSignatures applied to ABIs *)

\* Longest ABI handed to combineAbis.
MaxAbiLen == 2

FooView ==
    Obj([type |-> Str("function"), name |-> Str("foo"), inputs |-> Arr(<<>>),
         stateMutability |-> Str("view")])
FooNonpayable ==
    Obj([type |-> Str("function"), name |-> Str("foo"), inputs |-> Arr(<<>>),
         stateMutability |-> Str("nonpayable")])
EvEmptyInputs == Obj([type |-> Str("event"), name |-> Str("Ev"), inputs |-> Arr(<<>>)])
EvNoInputs == Obj([type |-> Str("event"), name |-> Str("Ev")])
Receive == Obj([type |-> Str("receive"), stateMutability |-> Str("payable")])
UnknownKind == Obj([type |-> Str("struct"), name |-> Str("S")])

\* Entries an ABI array may hold: two `foo` functions that differ only in a
\* field the uniqueness key ignores, an event with `inputs: []` and the same
\* event without `inputs`, a receive entry and an entry of no known kind.
AbiEntries == {FooView, FooNonpayable, EvEmptyInputs, EvNoInputs, Receive, UnknownKind}

\* The ABIs passed as proxyAbi / implementationAbi: null or an array.
Abis ==
    {Null} \cup {Arr(es) : es \in UNION {[1..n -> AbiEntries] : n \in 0..MaxAbiLen}}

\* extractEventSignatures(abi): abi.filter throws a TypeError when abi is null.
ExtractEvents(abi) ==
    IF abi.t = "array"
    THEN [k |-> "return", v |-> extractEventSignatures(abi.v)]
    ELSE [k |-> "throw", e |-> Err("TypeError")]

AbInit ==
    /\ mpc = "start"
    /\ \E a \in Abis, b \in Abis :
          merge = [proxyAbi |-> a, implementationAbi |-> b, combined |-> NotCalled,
                   again |-> NotCalled, events |-> NotCalled]

\* combined = combineAbis(proxyAbi, implementationAbi)
CombineStep ==
    /\ mpc = "start"
    /\ mpc' = "combined"
    /\ merge' = [merge EXCEPT !.combined = combineAbis(merge.proxyAbi,
                                                        merge.implementationAbi)]

\* combineAbis(combined, implementationAbi): the merge applied once more
RecombineStep ==
    /\ mpc = "combined"
    /\ mpc' = "recombined"
    /\ merge' = [merge EXCEPT !.again = combineAbis(merge.combined,
                                                     merge.implementationAbi)]

\* extractEventSignatures(combined)
ExtractStep ==
    /\ mpc = "recombined"
    /\ mpc' = "extracted"
    /\ merge' = [merge EXCEPT !.events = ExtractEvents(merge.combined)]

-----------------------------------------------------------------------------
(* analyzeContractFromBlockscanner, the event scan: src/startBlock.js 331-436 *)

blockRange == 10000
maxEventsToFetch == 500
\* The 10 of Math.min(10, ...): never more than ten chunk requests.
ChunkLimit == 10

Min(a, b) == IF a < b THEN a ELSE b
\* Math.ceil(a / b) for integers a >= 0 and b > 0.
Ceil(a, b) == (a + b - 1) \div b

blocksToScan(latestBlock, deploymentBlock) == latestBlock - deploymentBlock
numChunks(toScan) == Min(ChunkLimit, Ceil(toScan, blockRange))
actualBlockRange(toScan) == Ceil(toScan, numChunks(toScan))
fromBlock(deploymentBlock, toScan, i) == deploymentBlock + i * actualBlockRange(toScan)
toBlock(deploymentBlock, latestBlock, i) ==
    Min(latestBlock,
        deploymentBlock
          + (i + 1) * actualBlockRange(blocksToScan(latestBlock, deploymentBlock)) - 1)

\* `events` is kept as the batches it was built from: the chunk a batch came
\* from and how many of its events are in the array.
RECURSIVE EventCount(_)
EventCount(events) ==
    IF events = <<>> THEN 0 ELSE events[1].n + EventCount(Tail(events))

\* events = events.concat(result), trimmed to maxEventsToFetch (lines 404-409).
ConcatEvents(events, i, n) ==
    LET room == maxEventsToFetch - EventCount(events)
    IN  Append(events, [chunk |-> i, n |-> Min(n, room)])

\* Ranges scanned: the largest is MaxRanges times blockRange plus a remainder.
MaxRanges == 11
Remainders == {0, 1, blockRange - 1}
ScanLengths == {blockRange * m + d : m \in 0..MaxRanges, d \in Remainders}
DeploymentBlocks == {0, 1000}
\* What one getLogs request may end in: the fetch rejects, an HTTP error
\* status, a body that is not JSON, a JSON body with status '0', or a JSON
\* body with status '1' and a result of n events.
ChunkAnswers ==
    {[k |-> "reject", n |-> 0], [k |-> "http", n |-> 0], [k |-> "badjson", n |-> 0],
     [k |-> "status0", n |-> 0], [k |-> "status1", n |-> 300]}

ScanInit ==
    \E d \in DeploymentBlocks, len \in ScanLengths :
        scan = [pc |-> "start", deploymentBlock |-> d, latestBlock |-> d + len,
                i |-> 0, requests |-> <<>>, pending |-> {}, events |-> <<>>,
                capped |-> FALSE]

ScanLength == blocksToScan(scan.latestBlock, scan.deploymentBlock)

\* Line 352, true branch: the range is split.
SplitRange ==
    /\ scan.pc = "start"
    /\ ScanLength > blockRange
    /\ scan' = [scan EXCEPT !.pc = "loop"]

\* Lines 359-379: the loop test, the cap test and the request of chunk i.
RequestChunk ==
    /\ scan.pc = "loop"
    /\ scan.i < numChunks(ScanLength)
    /\ EventCount(scan.events) < maxEventsToFetch
    /\ scan' = [scan EXCEPT
                  !.pc = "await",
                  !.requests = Append(@,
                      [fromBlock |-> fromBlock(scan.deploymentBlock, ScanLength, scan.i),
                       toBlock |-> toBlock(scan.deploymentBlock, scan.latestBlock, scan.i),
                       latest |-> FALSE]),
                  !.pending = @ \cup {scan.i}]

\* Lines 380-418: the request settles; a failed chunk is skipped, the events
\* of a good one are appended; then i++.
ReceiveChunk ==
    /\ scan.pc = "await"
    /\ \E answer \in ChunkAnswers :
        scan' = [scan EXCEPT
                   !.pc = "loop",
                   !.pending = @ \ {scan.i},
                   !.events = IF answer.k = "status1"
                              THEN ConcatEvents(@, scan.i, answer.n) ELSE @,
                   !.i = @ + 1]

\* Lines 359-363: the loop ends, by its bound or by the event cap.
StopScan ==
    /\ scan.pc = "loop"
    /\ \/ scan.i >= numChunks(ScanLength)
       \/ EventCount(scan.events) >= maxEventsToFetch
    /\ scan' = [scan EXCEPT
                  !.pc = "done",
                  !.capped = /\ scan.i < numChunks(ScanLength)
                             /\ EventCount(scan.events) >= maxEventsToFetch]

\* Lines 420-436: a short range is fetched in one request up to 'latest'; a
\* rejected fetch or a bad body is caught by the outer handler.
FetchInOneGo ==
    /\ scan.pc = "start"
    /\ ~(ScanLength > blockRange)
    /\ \E answer \in ChunkAnswers :
        scan' = [scan EXCEPT
                   !.pc = "done",
                   !.requests = <<[fromBlock |-> scan.deploymentBlock,
                                   toBlock |-> scan.latestBlock, latest |-> TRUE]>>,
                   !.events = IF answer.k = "status1"
                              THEN <<[chunk |-> 0, n |-> Min(answer.n, maxEventsToFetch)]>>
                              ELSE <<>>]

-----------------------------------------------------------------------------
(* The chain configuration: src/src/utils/chains.js *)

\* Here a string is a sequence of characters, so that String(id) and
\* Number(id) are computed: "01" and "1" are two keys and one number.
DigitChar(d) == ToString(d)

RECURSIVE DecimalText(_)
DecimalText(n) ==
    IF n < 10 THEN <<DigitChar(n)>>
    ELSE Append(DecimalText(n \div 10), DigitChar(n % 10))

RECURSIVE DecimalValue(_)
DecimalValue(chars) ==
    IF chars = <<>> THEN 0
    ELSE 10 * DecimalValue(SubSeq(chars, 1, Len(chars) - 1))
           + DigitValue(chars[Len(chars)])

\* String(chainId): the property key; a string is its own key.
String(x) == IF x.t = "number" THEN DecimalText(x.v) ELSE x.v
\* Number(chainId) of a number or of a string of decimal digits.
Number(x) == IF x.t = "number" THEN x ELSE Num(DecimalValue(x.v))

\* obj[key] = value and delete obj[key] on an object kept as a function.
PutKey(obj, key, value) ==
    [k \in DOMAIN obj \cup {key} |-> IF k = key THEN value ELSE obj[k]]
DeleteKey(obj, key) == [k \in DOMAIN obj \ {key} |-> obj[k]]

\* An absent apiKeys object is kept as the empty one: every read of it is
\* config.apiKeys?.[...] or guarded by `config.apiKeys &&`, and saveApiKey
\* creates it before writing (lines 98-100).
NoKeys == [k \in {} |-> Null]

SaveFailed == Err("Failed to save configuration.")

\* loadConfig (lines 13-31): the cached object if there is one, else the
\* parsed file, which becomes the cache.  The file is there and parses.
loadConfig(c) == IF c.configCache # Null THEN c.configCache ELSE c.file

\* saveConfig (lines 33-41) after the caller changed `config`.  `config` is
\* the object loadConfig returned, that is the cached object itself, so the
\* caller's assignments are in configCache whether or not the write succeeds.
saveConfig(c, config, written, op) ==
    [configCache |-> config,
     file |-> IF written THEN config ELSE c.file,
     last |-> [op |-> op.op, id |-> op.id,
               out |-> IF written THEN [k |-> "return"]
                       ELSE [k |-> "throw", e |-> SaveFailed]],
     ops |-> c.ops + 1]

\* An operation that ends after loadConfig without touching `config`.
Unchanged(c, op, out) ==
    [configCache |-> loadConfig(c), file |-> c.file,
     last |-> [op |-> op.op, id |-> op.id, out |-> out],
     ops |-> c.ops + 1]

\* setSelectedChain (lines 70-78).
setSelectedChain(c, chainId, written) ==
    LET config == loadConfig(c)
        op == [op |-> "setSelectedChain", id |-> chainId]
    IN  IF String(chainId) \notin DOMAIN config.chains
        THEN Unchanged(c, op, [k |-> "throw", e |-> Err("not found in configuration")])
        ELSE saveConfig(c, [config EXCEPT !.selectedChainId = Number(chainId)],
                        written, op)

\* saveApiKey (lines 93-104).
saveApiKey(c, chainId, key, written) ==
    LET config == loadConfig(c)
        op == [op |-> "saveApiKey", id |-> chainId]
    IN  IF String(chainId) \notin DOMAIN config.chains
        THEN Unchanged(c, op, [k |-> "throw", e |-> Err("Cannot save API key")])
        ELSE saveConfig(c, [config EXCEPT !.apiKeys = PutKey(@, String(chainId), key)],
                        written, op)

\* addChain (lines 112-147).  `name` stands for the three required text
\* fields name, shortName and explorerApiUrl; the check precedes loadConfig.
addChain(c, chainConfig, written) ==
    LET op == [op |-> "addChain", id |-> chainConfig.id]
    IN  IF ~Truthy(chainConfig.id) \/ ~Truthy(chainConfig.name)
        THEN [configCache |-> c.configCache, file |-> c.file,
              last |-> [op |-> op.op, id |-> op.id,
                        out |-> [k |-> "throw", e |-> Err("Missing required fields")]],
              ops |-> c.ops + 1]
        ELSE LET config == loadConfig(c)
             IN  saveConfig(c,
                     [config EXCEPT !.chains =
                         PutKey(@, String(chainConfig.id),
                                [id |-> Number(chainConfig.id), name |-> chainConfig.name])],
                     written, op)

\* removeChain (lines 152-178).
removeChain(c, chainId, written) ==
    LET config == loadConfig(c)
        chainIdStr == String(chainId)
        op == [op |-> "removeChain", id |-> chainId]
    IN  IF chainIdStr \notin DOMAIN config.chains
        THEN Unchanged(c, op, [k |-> "return"])
        ELSE saveConfig(c,
                 [chains |-> DeleteKey(config.chains, chainIdStr),
                  apiKeys |-> IF /\ chainIdStr \in DOMAIN config.apiKeys
                                 /\ Truthy(config.apiKeys[chainIdStr])
                              THEN DeleteKey(config.apiKeys, chainIdStr)
                              ELSE config.apiKeys,
                  selectedChainId |-> IF config.selectedChainId = Number(chainId)
                                      THEN Null ELSE config.selectedChainId],
                 written, op)

\* Chain ids a caller passes: numbers, and the strings a command line gives.
ChainIds == {Num(1), Num(5), Txt(<<"1">>), Txt(<<"0", "1">>)}
ChainConfigs ==
    {[id |-> id, name |-> name] :
        id \in ChainIds \cup {Num(0)}, name \in {Str("Chain"), Txt(<<>>)}}
KeysToSave == {Str("KEY"), Txt(<<>>)}
\* Operations in one process.
MaxConfigOps == 3

Mainnet == [id |-> Num(1), name |-> Str("Ethereum Mainnet")]
Goerli == [id |-> Num(5), name |-> Str("Goerli")]
\* Config files to start from: chains under the key of their id, a selection
\* that is null or names one of them, keys only for chains of the file.
ConfigFiles ==
    {[chains |-> chains, apiKeys |-> apiKeys, selectedChainId |-> selected] :
        chains \in {[k \in {<<"1">>} |-> Mainnet],
                    [k \in {<<"1">>, <<"5">>} |-> IF k = <<"1">> THEN Mainnet ELSE Goerli]},
        apiKeys \in {NoKeys, [k \in {<<"1">>} |-> Str("KEY")]},
        selected \in {Null, Num(1)}}

ConfInit ==
    \E file \in ConfigFiles :
        conf = [configCache |-> Null, file |-> file,
                last |-> [op |-> "none", id |-> Null, out |-> [k |-> "return"]],
                ops |-> 0]

AddChain ==
    /\ conf.ops < MaxConfigOps
    /\ \E chainConfig \in ChainConfigs, written \in BOOLEAN :
        conf' = addChain(conf, chainConfig, written)

RemoveChain ==
    /\ conf.ops < MaxConfigOps
    /\ \E chainId \in ChainIds, written \in BOOLEAN :
        conf' = removeChain(conf, chainId, written)

SetSelectedChain ==
    /\ conf.ops < MaxConfigOps
    /\ \E chainId \in ChainIds, written \in BOOLEAN :
        conf' = setSelectedChain(conf, chainId, written)

SaveApiKey ==
    /\ conf.ops < MaxConfigOps
    /\ \E chainId \in ChainIds, key \in KeysToSave, written \in BOOLEAN :
        conf' = saveApiKey(conf, chainId, key, written)

-----------------------------------------------------------------------------
(* analyzeContract, saving the source files: src/src/core/blockExplorer.js *)
(* 432-446 and saveContractFile, src/src/utils/storage.js 66-83            *)

\* A filename is a sequence of characters: a dot, a slash, a letter.
PathChars == {".", "/", "a"}
MaxNameLen == 7
Filenames == UNION {[1..n -> PathChars] : n \in 0..MaxNameLen}

\* filename.replace(/\.\.\//g, ''): every match of "../" found in one scan
\* from the left is removed; what the removals join is not scanned again.
RECURSIVE safeFilename(_)
safeFilename(filename) ==
    IF Len(filename) < 3 THEN filename
    ELSE IF SubSeq(filename, 1, 3) = <<".", ".", "/">>
         THEN safeFilename(SubSeq(filename, 4, Len(filename)))
         ELSE <<Head(filename)>> \o safeFilename(Tail(filename))

\* filename.split('/')
RECURSIVE SplitPath(_, _, _)
SplitPath(chars, segment, segments) ==
    IF chars = <<>> THEN Append(segments, segment)
    ELSE IF Head(chars) = "/"
         THEN SplitPath(Tail(chars), <<>>, Append(segments, segment))
         ELSE SplitPath(Tail(chars), Append(segment, Head(chars)), segments)

\* path.join(dirPath, filename), relative to dirPath: empty and "." segments
\* are dropped, ".." drops the segment before it or, when there is none,
\* climbs one directory above dirPath.
RECURSIVE WalkPath(_, _, _)
WalkPath(segments, up, below) ==
    IF segments = <<>> THEN [up |-> up, below |-> below]
    ELSE LET seg == Head(segments)
         IN  IF seg = <<>> \/ seg = <<".">>
             THEN WalkPath(Tail(segments), up, below)
             ELSE IF seg = <<".", ".">>
                  THEN IF below = <<>>
                       THEN WalkPath(Tail(segments), up + 1, below)
                       ELSE WalkPath(Tail(segments), up,
                                     SubSeq(below, 1, Len(below) - 1))
                  ELSE WalkPath(Tail(segments), up, Append(below, seg))

\* filePath = path.join(dirPath, filename), dirPath being
\* <OUTPUT_BASE_DIR>/<chainId>/<lowercase address> (storage.js 72-74).
filePath(filename) == WalkPath(SplitPath(filename, <<>>, <<>>), 0, <<>>)

\* fs.writeFile(filePath, ...) after ensureDirectoryExists(dirPath): it fails
\* on a path that names a directory; the directory a one-segment path lies
\* in is dirPath or one above it and exists; a deeper one may be missing.
CanWrite(filename, parentExists) ==
    LET p == filePath(filename)
    IN  /\ p.below # <<>>
        /\ filename[Len(filename)] # "/"
        /\ Len(p.below) > 1 => parentExists

\* saveContractFile (storage.js 66-83): the paths written after the call.
saveContractFile(written, content, filename, parentExists) ==
    IF ~Truthy(content) \/ filename = <<>> THEN written
    ELSE IF CanWrite(filename, parentExists)
         THEN written \cup {filePath(filename)}
         ELSE written

SourceTexts == {Str("contract C {}"), Txt(<<>>)}
\* sourceCode maps: one file of any name, alone or after a file "a".
SourceMaps ==
    {<<[filename |-> f, content |-> c]>> : f \in Filenames, c \in SourceTexts}
      \cup {<<[filename |-> <<"a">>, content |-> Str("contract A {}")],
              [filename |-> f, content |-> c]>> :
               f \in Filenames \ {<<"a">>}, c \in SourceTexts}

FilesInit ==
    \E sourceCode \in SourceMaps :
        files = [pc |-> "saving", sourceCode |-> sourceCode, k |-> 1,
                 written |-> {}, filesSaved |-> {}]

\* One turn of `for (const filename in sourceCode)` (blockExplorer.js 435-446).
SaveSourceFile ==
    /\ files.pc = "saving"
    /\ files.k <= Len(files.sourceCode)
    /\ \E parentExists \in BOOLEAN :
        LET entry == files.sourceCode[files.k]
            safe == safeFilename(entry.filename)
        IN  files' = [files EXCEPT
                        !.k = @ + 1,
                        !.written = IF safe # <<>>
                                    THEN saveContractFile(@, entry.content, safe,
                                                          parentExists)
                                    ELSE @,
                        !.filesSaved = IF safe # <<>> THEN @ \cup {safe} ELSE @]

\* The loop has gone through every filename.
SourcesSaved ==
    /\ files.pc = "saving"
    /\ files.k > Len(files.sourceCode)
    /\ files' = [files EXCEPT !.pc = "done"]

-----------------------------------------------------------------------------
(* Specifications *)

CiIdle == ipc = "idle" /\ info = [contractAddress |-> Null]

AbIdle == mpc = "idle" /\ merge = [proxyAbi |-> Null]

RtIdle == rpc = "idle" /\ retry = [retries |-> 0]

VfIdle == vpc = "idle" /\ verify = [queried |-> <<>>]

XIdle == xpc = "idle" /\ xcall = [op |-> "none", out |-> NotCalled]

ScanIdle == scan = [pc |-> "idle"]

ConfIdle == conf = [ops |-> 0]

FilesIdle == files = [pc |-> "idle"]

VsIdle ==
    /\ pc = "idle"
    /\ address = Null
    /\ chain = Null
    /\ keyStore = "missing"
    /\ response = InitialResponse
    /\ fetchedAbiFromExplorer = FALSE
    /\ sourcifyResult = NotCalled
    /\ abiFetch = NotCalled
    /\ creation = NotCalled
    /\ calls = <<>>

Init == VsInit /\ CiIdle /\ AbIdle /\ RtIdle /\ VfIdle /\ XIdle /\ ScanIdle /\ ConfIdle /\ FilesIdle

Next ==
    \/ Sourcify /\ UNCHANGED <<ciVars, abVars, rtVars, vfVars, xVars, scVars, cfVars, flVars>>
    \/ ExplorerAbi /\ UNCHANGED <<ciVars, abVars, rtVars, vfVars, xVars, scVars, cfVars, flVars>>
    \/ ExplorerSource /\ UNCHANGED <<ciVars, abVars, rtVars, vfVars, xVars, scVars, cfVars, flVars>>
    \/ ExplorerDeployment /\ UNCHANGED <<ciVars, abVars, rtVars, vfVars, xVars, scVars, cfVars, flVars>>

Spec == Init /\ [][Next]_vars

\* Every step of getVerificationData is an awaited call that settles.
FairSpec == Spec /\ WF_vars(Next)

InitInfo == VsIdle /\ CiInit /\ AbIdle /\ RtIdle /\ VfIdle /\ XIdle /\ ScanIdle /\ ConfIdle /\ FilesIdle

NextInfo ==
    \/ FetchContractStep /\ UNCHANGED <<vsVars, abVars, rtVars, vfVars, xVars, scVars, cfVars, flVars>>
    \/ DetectProxyStep /\ UNCHANGED <<vsVars, abVars, rtVars, vfVars, xVars, scVars, cfVars, flVars>>
    \/ ImplementationStep /\ UNCHANGED <<vsVars, abVars, rtVars, vfVars, xVars, scVars, cfVars, flVars>>
    \/ ResultStep /\ UNCHANGED <<vsVars, abVars, rtVars, vfVars, xVars, scVars, cfVars, flVars>>

SpecInfo == InitInfo /\ [][NextInfo]_vars

InitAbi == VsIdle /\ CiIdle /\ AbInit /\ RtIdle /\ VfIdle /\ XIdle /\ ScanIdle /\ ConfIdle /\ FilesIdle

NextAbi ==
    \/ CombineStep /\ UNCHANGED <<vsVars, ciVars, rtVars, vfVars, xVars, scVars, cfVars, flVars>>
    \/ RecombineStep /\ UNCHANGED <<vsVars, ciVars, rtVars, vfVars, xVars, scVars, cfVars, flVars>>
    \/ ExtractStep /\ UNCHANGED <<vsVars, ciVars, rtVars, vfVars, xVars, scVars, cfVars, flVars>>

SpecAbi == InitAbi /\ [][NextAbi]_vars

InitRetry == VsIdle /\ CiIdle /\ AbIdle /\ RtInit /\ VfIdle /\ XIdle /\ ScanIdle /\ ConfIdle /\ FilesIdle

NextRetry ==
    \/ AttemptStep /\ UNCHANGED <<vsVars, ciVars, abVars, vfVars, xVars, scVars, cfVars, flVars>>
    \/ SettleStep /\ UNCHANGED <<vsVars, ciVars, abVars, vfVars, xVars, scVars, cfVars, flVars>>
    \/ WakeStep /\ UNCHANGED <<vsVars, ciVars, abVars, vfVars, xVars, scVars, cfVars, flVars>>

SpecRetry == InitRetry /\ [][NextRetry]_vars

\* The pending request settles and the timer fires: the event loop runs them.
FairSpecRetry == SpecRetry /\ WF_vars(NextRetry)

InitVerify == VsIdle /\ CiIdle /\ AbIdle /\ RtIdle /\ VfInit /\ XIdle /\ ScanIdle /\ ConfIdle /\ FilesIdle

NextVerify ==
    \/ FullMatchStep /\ UNCHANGED <<vsVars, ciVars, abVars, rtVars, xVars, scVars, cfVars, flVars>>
    \/ PartialMatchStep /\ UNCHANGED <<vsVars, ciVars, abVars, rtVars, xVars, scVars, cfVars, flVars>>

SpecVerify == InitVerify /\ [][NextVerify]_vars

\* getVerificationData and one explorer operation called on its own, on a
\* machine where getApiKey finds no key for the chain.
InitNoKey ==
    /\ VsInit
    /\ keyStore = "nokey"
    /\ CiIdle /\ AbIdle /\ RtIdle /\ VfIdle /\ XInit /\ ScanIdle /\ ConfIdle /\ FilesIdle

NextNoKey ==
    \/ Sourcify /\ UNCHANGED <<ciVars, abVars, rtVars, vfVars, xVars, scVars, cfVars, flVars>>
    \/ ExplorerAbi /\ UNCHANGED <<ciVars, abVars, rtVars, vfVars, xVars, scVars, cfVars, flVars>>
    \/ ExplorerSource /\ UNCHANGED <<ciVars, abVars, rtVars, vfVars, xVars, scVars, cfVars, flVars>>
    \/ ExplorerDeployment /\ UNCHANGED <<ciVars, abVars, rtVars, vfVars, xVars, scVars, cfVars, flVars>>
    \/ CallGetAbiFromExplorer /\ UNCHANGED <<vsVars, ciVars, abVars, rtVars, vfVars, scVars, cfVars, flVars>>
    \/ CallGetSourceCodeFromExplorer /\ UNCHANGED <<vsVars, ciVars, abVars, rtVars, vfVars, scVars, cfVars, flVars>>
    \/ CallGetContractCreationTx /\ UNCHANGED <<vsVars, ciVars, abVars, rtVars, vfVars, scVars, cfVars, flVars>>
    \/ CallGetLogs /\ UNCHANGED <<vsVars, ciVars, abVars, rtVars, vfVars, scVars, cfVars, flVars>>

SpecNoKey == InitNoKey /\ [][NextNoKey]_vars

\* One explorer operation called on its own, for every chain configuration
\* and key store.
InitOps ==
    /\ pc = "idle"
    /\ address \in Addresses
    /\ chain \in Chains
    /\ keyStore \in KeyStores
    /\ response = InitialResponse
    /\ fetchedAbiFromExplorer = FALSE
    /\ sourcifyResult = NotCalled
    /\ abiFetch = NotCalled
    /\ creation = NotCalled
    /\ calls = <<>>
    /\ CiIdle /\ AbIdle /\ RtIdle /\ VfIdle /\ XInit /\ ScanIdle /\ ConfIdle /\ FilesIdle

NextOps ==
    \/ CallGetAbiFromExplorer /\ UNCHANGED <<vsVars, ciVars, abVars, rtVars, vfVars, scVars, cfVars, flVars>>
    \/ CallGetSourceCodeFromExplorer /\ UNCHANGED <<vsVars, ciVars, abVars, rtVars, vfVars, scVars, cfVars, flVars>>
    \/ CallGetContractCreationTx /\ UNCHANGED <<vsVars, ciVars, abVars, rtVars, vfVars, scVars, cfVars, flVars>>
    \/ CallGetLogs /\ UNCHANGED <<vsVars, ciVars, abVars, rtVars, vfVars, scVars, cfVars, flVars>>

SpecOps == InitOps /\ [][NextOps]_vars

\* The event scan of analyzeContractFromBlockscanner.
InitScan == VsIdle /\ CiIdle /\ AbIdle /\ RtIdle /\ VfIdle /\ XIdle /\ ScanInit /\ ConfIdle /\ FilesIdle

NextScan ==
    \/ SplitRange /\ UNCHANGED <<vsVars, ciVars, abVars, rtVars, vfVars, xVars, cfVars, flVars>>
    \/ RequestChunk /\ UNCHANGED <<vsVars, ciVars, abVars, rtVars, vfVars, xVars, cfVars, flVars>>
    \/ ReceiveChunk /\ UNCHANGED <<vsVars, ciVars, abVars, rtVars, vfVars, xVars, cfVars, flVars>>
    \/ StopScan /\ UNCHANGED <<vsVars, ciVars, abVars, rtVars, vfVars, xVars, cfVars, flVars>>
    \/ FetchInOneGo /\ UNCHANGED <<vsVars, ciVars, abVars, rtVars, vfVars, xVars, cfVars, flVars>>

SpecScan == InitScan /\ [][NextScan]_vars

\* The chain configuration under the four operations that change it.
InitConfig == VsIdle /\ CiIdle /\ AbIdle /\ RtIdle /\ VfIdle /\ XIdle /\ ScanIdle /\ ConfInit /\ FilesIdle

NextConfig ==
    \/ AddChain /\ UNCHANGED <<vsVars, ciVars, abVars, rtVars, vfVars, xVars, scVars, flVars>>
    \/ RemoveChain /\ UNCHANGED <<vsVars, ciVars, abVars, rtVars, vfVars, xVars, scVars, flVars>>
    \/ SetSelectedChain /\ UNCHANGED <<vsVars, ciVars, abVars, rtVars, vfVars, xVars, scVars, flVars>>
    \/ SaveApiKey /\ UNCHANGED <<vsVars, ciVars, abVars, rtVars, vfVars, xVars, scVars, flVars>>

SpecConfig == InitConfig /\ [][NextConfig]_vars

\* analyzeContract saving the source files of one contract.
InitFiles == VsIdle /\ CiIdle /\ AbIdle /\ RtIdle /\ VfIdle /\ XIdle /\ ScanIdle /\ ConfIdle /\ FilesInit

NextFiles ==
    \/ SaveSourceFile /\ UNCHANGED <<vsVars, ciVars, abVars, rtVars, vfVars, xVars, scVars, cfVars>>
    \/ SourcesSaved /\ UNCHANGED <<vsVars, ciVars, abVars, rtVars, vfVars, xVars, scVars, cfVars>>

SpecFiles == InitFiles /\ [][NextFiles]_vars

-----------------------------------------------------------------------------
(* Properties of getVerificationData *)

Returned == pc = "done"
ExplorerOps == {"getAbiFromExplorer", "getSourceCodeFromExplorer", "getContractCreationTx"}
RegistryMatch ==
    IF sourcifyResult.k = "returned" THEN sourcifyResult.v.match ELSE sourcifyResult.k
RegistryFaulted == RegistryMatch \in {"error", "threw"}

\* C1: when the registry lookup returns match 'error' or throws, the run has
\* returned with status 'error', source 'sourcify' and an error, and no
\* explorer operation was invoked.
C1_RegistryErrorEndsRun ==
    RegistryFaulted =>
        /\ Returned
        /\ response.status = "error"
        /\ response.source = "sourcify"
        /\ response.error.t = "error"
        /\ Range(calls) \cap ExplorerOps = {}

C1_Witness == Returned /\ RegistryMatch = "error" /\ chain.t = "object"

\* C2: every returned result has status 'full' or 'partial' only if its
\* source is 'sourcify'.
C2_MatchStatusOnlyFromRegistry ==
    Returned => (response.status \in {"full", "partial"} => response.source = "sourcify")

\* C3: a run whose registry lookup returned a full match returns status
\* 'full', source 'sourcify' and a non-null data.abi.
C3_FullMatchResult ==
    (Returned /\ RegistryMatch = "full") =>
        /\ response.status = "full"
        /\ response.source = "sourcify"
        /\ Truthy(response.data.abi)

\* The ABI string getAbiFromExplorer returned in this run parsed.
ExplorerAbiParsed ==
    /\ abiFetch.k = "return"
    /\ Truthy(abiFetch.v)
    /\ JSONParse(abiFetch.v).k = "return"

\* C4: the returned status is 'verified' exactly when an ABI string returned
\* by getAbiFromExplorer parsed; the result then has source 'blockExplorer'
\* and the parsed ABI; so a registry miss with a valid explorer ABI ends
\* 'verified'.
C4_VerifiedIffExplorerAbi ==
    Returned =>
        /\ (response.status = "verified") <=> ExplorerAbiParsed
        /\ response.status = "verified" =>
              /\ response.source = "blockExplorer"
              /\ response.data.abi = JSONParse(abiFetch.v).v
              /\ response.data.abi.t = "array"

C4_Witness ==
    /\ Returned /\ RegistryMatch = "none" /\ response.status = "verified"
    /\ Len(response.data.abi.v) = 2

\* The explorer answered the ABI request and reported no ABI.
ExplorerReportsNoAbi ==
    /\ abiFetch.k = "return"
    /\ abiFetch.fetched.k = "return"
    /\ abiFetch.fetched.v \in {NotVerifiedText, Txt(<<>>)}

\* C5: registry 'none' and an explorer that reports no ABI give status
\* 'unverified', source 'none', no data.abi and error null.
C5_NoMatchAnywhere ==
    (Returned /\ RegistryMatch = "none" /\ ExplorerReportsNoAbi) =>
        /\ response.status = "unverified"
        /\ response.source = "none"
        /\ response.data.abi = Undefined
        /\ response.error = Null

C5_Witness ==
    /\ Returned /\ RegistryMatch = "none"
    /\ abiFetch.k = "return" /\ abiFetch.fetched.k = "return"
    /\ abiFetch.fetched.v = NotVerifiedText
    /\ response.status = "unverified"

\* The ABI request was made and failed on every attempt.
ExplorerAbiRequestFailed == abiFetch.k = "return" /\ abiFetch.fetched.k = "throw"

\* C6: after a registry miss, an explorer ABI request that fails on every
\* attempt is reflected in the result: status 'error' with the error set.
C6_ExplorerFailureSurfaced ==
    (Returned /\ RegistryMatch = "none" /\ ExplorerAbiRequestFailed) =>
        /\ response.status = "error"
        /\ response.error # Null

\* The deployment details getDeploymentInfo extracted from the metadata.
SourcifyDeployment ==
    IF sourcifyResult.k = "returned" THEN sourcifyResult.deployment ELSE NotCalled
MetadataHasDeployment ==
    \/ Truthy(Prop(SourcifyDeployment, "deploymentBlock"))
    \/ Truthy(Prop(SourcifyDeployment, "transactionHash"))

\* C7: deployment priority: metadata of a registry match that carries a block
\* number or transaction hash gives deployment source 'sourcify' with those
\* values and no getContractCreationTx call; otherwise what
\* getContractCreationTx found, with source 'blockExplorer'; otherwise
\* 'unknown'.
C7_DeploymentPriority ==
    Returned /\ ~RegistryFaulted =>
        IF MetadataHasDeployment
        THEN /\ Prop(response.deployment, "source") = Str("sourcify")
             /\ \/ Prop(response.deployment, "blockNumber")
                     = Prop(SourcifyDeployment, "deploymentBlock")
                \/ Prop(response.deployment, "txHash")
                     = Prop(SourcifyDeployment, "transactionHash")
             /\ "getContractCreationTx" \notin Range(calls)
        ELSE IF creation.k = "return" /\ HasDeployment(creation.v)
        THEN /\ Prop(response.deployment, "source") = Str("blockExplorer")
             /\ Prop(response.deployment, "txHash") = Prop(creation.v, "txHash")
             /\ Prop(response.deployment, "blockNumber") = Prop(creation.v, "blockNumber")
        ELSE response.deployment = Obj([source |-> Str("unknown")])

\* C8: every run has performed a proxy-resolution step when it returns.
C8_ProxyResolutionAlways ==
    Returned => ("resolveProxy" \in Range(calls) \/ "proxy" \in DOMAIN response)

-----------------------------------------------------------------------------
(* Properties of getContractInfo *)

\* getContractInfo returned the full result object of lines 307-330.
InfoReturned == ipc = "done" /\ "combinedAbi" \in DOMAIN info.result.f
ResultAbi == Prop(info.result, "abi")
ResultImplementationAbi == Prop(info.result, "implementationAbi")
ResultCombinedAbi == Prop(info.result, "combinedAbi")

\* C9 as stated: a non-null combinedAbi is returned if and only if both the
\* proxy's ABI and the implementation's ABI were obtained.
C9_CombinedIffBoth ==
    ipc = "done" =>
        (Truthy(ResultCombinedAbi) <=> (Truthy(ResultAbi) /\ Truthy(ResultImplementationAbi)))

\* C9 amended: a non-null combinedAbi is returned if and only if the
\* implementation's ABI was obtained; when the proxy's own ABI is null the
\* combined ABI is the implementation's ABI.
C9_CombinedIffImplementation ==
    ipc = "done" =>
        /\ Truthy(ResultCombinedAbi) <=> Truthy(ResultImplementationAbi)
        /\ (Truthy(ResultImplementationAbi) /\ ~Truthy(ResultAbi)) =>
              ResultCombinedAbi = ResultImplementationAbi

C9_Witness ==
    /\ InfoReturned
    /\ ResultAbi = Null
    /\ ResultImplementationAbi # Null
    /\ ResultCombinedAbi = ResultImplementationAbi

\* The answer to the implementation request carries an ABI that parses:
\* 2xx, a JSON body, API status '1', a non-empty result list whose first
\* element has an ABI text other than the sentinel that is a JSON array.
ImplementationAbiParses(resp) ==
    /\ resp.net = "http"
    /\ resp.status \in 200..299
    /\ resp.json # BadJson
    /\ Prop(resp.json, "status") = Str("1")
    /\ Prop(resp.json, "result").t = "array"
    /\ Len(Prop(resp.json, "result").v) > 0
    /\ LET text == Prop(Prop(resp.json, "result").v[1], "ABI")
       IN  /\ text.t = "string"
           /\ text # NotVerifiedText
           /\ JSONParse(text).k = "return"

\* C10: implementationVerified is true exactly when an implementation ABI was
\* fetched and parsed; in every other case the result has
\* implementationVerified false and combinedAbi null, and the call returns
\* normally: nothing after the contract's own request throws.
C10_ImplementationVerified ==
    /\ ipc = "done" =>
         /\ Prop(info.result, "implementationVerified") = True
              <=> (info.implResponse # NotCalled /\ ImplementationAbiParses(info.implResponse))
         /\ Prop(info.result, "implementationVerified") # True =>
              ~Truthy(ResultCombinedAbi)
    /\ ipc = "threw" => info.contractData = Undefined
    /\ info.implResponse # NotCalled => ipc \in {"result", "done"}

C10_Witness ==
    /\ InfoReturned
    /\ Prop(info.result, "proxy") = True
    /\ isAddress(Prop(info.result, "implementation"))
    /\ info.implResponse \in {Reject, ExplorerHttp(500, BadJson)}
    /\ Prop(info.result, "implementationVerified") = False
    /\ ResultCombinedAbi = Null
    /\ Truthy(ResultAbi)

-----------------------------------------------------------------------------
(* Properties of combineAbis and extractEventSignatures *)

Merged == mpc \in {"combined", "recombined", "extracted"}
BothArrays == merge.proxyAbi.t = "array" /\ merge.implementationAbi.t = "array"
\* The uniqueness keys of the entries of an ABI array that have one.
KeysOf(abi) == {EntrySignature(abi.v[i]) : i \in DOMAIN abi.v} \ {<<>>}
\* Is abi.v[i] the first entry of abi with its key?
FirstWithKey(abi, i) ==
    \A j \in DOMAIN abi.v : j < i => EntrySignature(abi.v[j]) # EntrySignature(abi.v[i])
NoDuplicateKeys(abi) ==
    abi.t = "array" =>
        \A i, j \in DOMAIN abi.v :
            (i < j /\ EntrySignature(abi.v[i]) # <<>>) =>
                EntrySignature(abi.v[i]) # EntrySignature(abi.v[j])

\* C11: merging the implementation ABI into an already merged ABI changes
\* nothing, combineAbis(combineAbis(A, B), B) = combineAbis(A, B), and the
\* merged ABI holds no two entries with the same uniqueness key, for all
\* ABIs A and B that are null or arrays.
C11_MergeIdempotent ==
    mpc \in {"recombined", "extracted"} =>
        /\ merge.again = merge.combined
        /\ NoDuplicateKeys(merge.combined)

\* C12 as stated: for non-null ABIs, for every proxy entry and implementation
\* entry with the same key the result holds the implementation entry and not
\* the proxy entry, and every proxy entry of a recognised kind whose key is
\* not in the implementation ABI is in the result after all implementation
\* entries.
C12_ImplementationWins ==
    (Merged /\ BothArrays) =>
        LET a == merge.proxyAbi.v
            b == merge.implementationAbi.v
            c == merge.combined.v
        IN  /\ \A p \in Range(a), q \in Range(b) :
                  (EntrySignature(p) = EntrySignature(q) /\ EntrySignature(p) # <<>>) =>
                      /\ q \in Range(c)
                      /\ p # q => p \notin Range(c)
            /\ \A p \in Range(a) :
                  (EntrySignature(p) # <<>>
                   /\ EntrySignature(p) \notin KeysOf(merge.implementationAbi)) =>
                      \E n \in DOMAIN c :
                          /\ c[n] = p
                          /\ \A j \in DOMAIN c : c[j] \in Range(b) => j < n

\* C12, made exact: for non-null ABIs, for every key shared by a proxy entry
\* and an implementation entry the result holds exactly one entry with that
\* key, the first implementation entry that has it, whatever the order of
\* the entries in either list; and the first proxy entry with each recognised
\* key that is not in the implementation ABI is in the result, after every
\* entry that came from the implementation ABI.
C12_FirstImplementationWins ==
    (Merged /\ BothArrays) =>
        LET a == merge.proxyAbi.v
            b == merge.implementationAbi.v
            c == merge.combined.v
        IN  /\ merge.combined.t = "array"
            /\ \A i \in DOMAIN b :
                  (EntrySignature(b[i]) \in KeysOf(merge.proxyAbi)
                   /\ FirstWithKey(merge.implementationAbi, i)) =>
                      /\ \E n \in DOMAIN c : c[n] = b[i]
                      /\ \A n \in DOMAIN c :
                            EntrySignature(c[n]) = EntrySignature(b[i]) => c[n] = b[i]
            /\ NoDuplicateKeys(merge.combined)
            /\ \A i \in DOMAIN a :
                  (EntrySignature(a[i]) # <<>>
                   /\ EntrySignature(a[i]) \notin KeysOf(merge.implementationAbi)
                   /\ FirstWithKey(merge.proxyAbi, i)) =>
                      \E n \in DOMAIN c :
                          /\ c[n] = a[i]
                          /\ \A j \in DOMAIN c :
                                EntrySignature(c[j]) \in KeysOf(merge.implementationAbi)
                                    => j < n

\* A proxy that lists its own entry first and the conflicting `foo` second,
\* merged with an implementation that lists `foo` first.
C12_Witness ==
    /\ mpc = "combined"
    /\ merge.proxyAbi = Arr(<<Receive, FooNonpayable>>)
    /\ merge.implementationAbi = Arr(<<FooView, EvEmptyInputs>>)
    /\ merge.combined = Arr(<<FooView, EvEmptyInputs, Receive>>)

SignaturesOf(events) == {Prop(events[i], "signature") : i \in DOMAIN events}

\* C13: the event signatures extracted from the merged ABI include every
\* event signature extracted from the proxy ABI alone and from the
\* implementation ABI alone, and no two extracted entries have the same
\* signature.
C13_EventSignaturesOfMerge ==
    (mpc = "extracted" /\ merge.events.k = "return") =>
        /\ \A abi \in {merge.proxyAbi, merge.implementationAbi} :
              abi.t = "array" =>
                  SignaturesOf(extractEventSignatures(abi.v))
                      \subseteq SignaturesOf(merge.events.v)
        /\ \A i, j \in DOMAIN merge.events.v :
              i < j => Prop(merge.events.v[i], "signature")
                         # Prop(merge.events.v[j], "signature")

-----------------------------------------------------------------------------
(* Properties of fetchWithRetry *)

Success == ExplorerHttp(200, Envelope("1", "OK", AbiResult))

\* HTTP 429 on the first three attempts, success on the attempt after them,
\* and the default cap.
ThreeRateLimitsThenSuccess ==
    /\ rpc # "idle"
    /\ retry.retries = DefaultRetries
    /\ \A n \in 1..3 : retry.resps[n] = TooManyRequests
    /\ retry.resps[4] = Success

\* C14: an explorer request that answers HTTP 429 on its first three
\* attempts and would succeed on the next one eventually returns the
\* successful result from fetchWithRetry with its default cap, and no error
\* reaches the caller.
C14_RateLimitedThenSuccess ==
    ThreeRateLimitsThenSuccess
        ~> (rpc = "done" /\ retry.outcome = [k |-> "return", v |-> AbiResult])

\* How an answer counts for the loop: a success returns data.result, a 404
\* returns null, anything else is a failed attempt.
Succeeded(resp) ==
    /\ resp.net = "http"
    /\ resp.status \in 200..299
    /\ resp.json # BadJson
    /\ Prop(resp.json, "message") = Str("OK") \/ Prop(resp.json, "status") = Str("1")
NotFound(resp) == resp.net = "http" /\ resp.status = 404
Failed(resp) == ~Succeeded(resp) /\ ~NotFound(resp)
\* The error a failed attempt raises.
ErrorOf(resp) ==
    IF resp.net = "reject" THEN Err("fetch failed")
    ELSE IF resp.status \in 200..299 THEN Err("API Error")
    ELSE Err("HTTP Error")

RetrySafe ==
    (rpc # "idle" /\ retry.retries >= 1) =>
        /\ retry.attempts <= retry.retries
        /\ retry.inFlight <= 1
        /\ retry.inFlight = 1 <=> rpc = "fetching"
        \* one wait of delay * 2^i after each failed attempt i that is not the last
        /\ \A n \in DOMAIN retry.waits : retry.waits[n] = retry.delay * 2^(n - 1)
        /\ Len(retry.waits) = CASE rpc = "loop" -> retry.attempts
                                 [] rpc = "waiting" -> retry.attempts
                                 [] OTHER -> retry.attempts - 1
        /\ rpc = "done" =>
              LET n == retry.attempts
                  last == retry.resps[n]
              IN  /\ \A m \in 1..(n - 1) : Failed(retry.resps[m])
                  /\ Succeeded(last) =>
                        retry.outcome = [k |-> "return", v |-> Prop(last.json, "result")]
                  /\ NotFound(last) => retry.outcome = [k |-> "return", v |-> Null]
                  /\ Failed(last) =>
                        /\ n = retry.retries
                        /\ retry.outcome = [k |-> "throw", e |-> ErrorOf(last)]

\* C15: fetchWithRetry with retries >= 1 terminates after at most `retries`
\* attempts: it returns at the first attempt that succeeds or answers 404
\* (null), waits delay * 2^i after the failed attempt i before the next one,
\* never has two attempts in flight, and throws the last error when all
\* `retries` attempts have failed.
C15_RetryTerminates ==
    /\ []RetrySafe
    /\ (rpc # "idle" /\ retry.retries >= 1) ~> (rpc = "done")

\* Three failed attempts with the default delay: waits of 1000 and 2000 ms,
\* then the error of the third attempt.
C15_Witness ==
    /\ rpc = "done"
    /\ retry.retries = 3
    /\ retry.attempts = 3
    /\ retry.waits = <<1000, 2000>>
    /\ retry.resps[3] = ExplorerHttp(200, RateLimited)
    /\ retry.outcome = [k |-> "throw", e |-> Err("API Error")]

-----------------------------------------------------------------------------
(* Properties of verifyContract *)

\* What an endpoint's answer means: a record found, a failure, or absence.
RecordFound(resp) ==
    /\ resp.net = "http"
    /\ resp.status \in 200..299
    /\ resp.ctype = "application/json"
    /\ resp.body \in MetadataDocs
RequestFailed(resp) ==
    \/ resp.net = "reject"
    \/ resp.net = "http" /\ resp.status \notin 200..299 /\ resp.status # 404
    \/ /\ resp.net = "http"
       /\ resp.status \in 200..299
       /\ resp.ctype = "application/json"
       /\ resp.body = BadJson
ReportedAbsence(resp) == ~RecordFound(resp) /\ ~RequestFailed(resp)
CauseOf(resp) ==
    IF resp.net = "reject" THEN Err("fetch failed")
    ELSE IF resp.status \in 200..299 THEN Err("SyntaxError")
    ELSE Err("Sourcify request failed")
AnswerTo(endpoint) ==
    IF endpoint = "full" THEN verify.answers.full ELSE verify.answers.partial

\* C16: verifyContract queries the full-match endpoint first and the
\* partial-match endpoint only after the full-match query reported absence;
\* it returns 'full' when the first query found a record, without querying
\* the partial endpoint, 'partial' when only the second did, and 'none' when
\* both reported absence.
C16_FullThenPartial ==
    vpc # "idle" =>
        /\ verify.queried \in {<<>>, <<"full">>, <<"full", "partial">>}
        /\ "partial" \in Range(verify.queried) => ReportedAbsence(verify.answers.full)
        /\ vpc = "done" =>
              /\ RecordFound(verify.answers.full) =>
                    /\ verify.result.match = "full"
                    /\ verify.result.data = verify.answers.full.body
                    /\ verify.queried = <<"full">>
              /\ (ReportedAbsence(verify.answers.full)
                   /\ RecordFound(verify.answers.partial)) =>
                    /\ verify.result.match = "partial"
                    /\ verify.result.data = verify.answers.partial.body
              /\ (ReportedAbsence(verify.answers.full)
                   /\ ReportedAbsence(verify.answers.partial)) =>
                    verify.result.match = "none"

C16_Witness ==
    /\ vpc = "done"
    /\ verify.answers.full = Http(404, "text/html", Null)
    /\ verify.answers.partial = Http(200, "application/json", MetaAbi)
    /\ verify.queried = <<"full", "partial">>
    /\ verify.result.match = "partial"

\* C17: verifyContract always returns, and returns match 'error' with the
\* cause attached exactly when a request it made failed (transport failure,
\* non-2xx status other than 404, unparseable JSON body); the failed request
\* is the last one made, so no other endpoint is queried after it and the
\* result is never 'none'. A 404 and a 2xx answer that is not JSON count as
\* absence of a match.
C17_ErrorExactlyOnFailure ==
    vpc = "done" =>
        LET made == Range(verify.queried)
            last == verify.queried[Len(verify.queried)]
        IN  /\ verify.result.match \in {"full", "partial", "none", "error"}
            /\ verify.result.match = "error"
                  <=> \E endpoint \in made : RequestFailed(AnswerTo(endpoint))
            /\ verify.result.match = "error" =>
                  /\ RequestFailed(AnswerTo(last))
                  /\ verify.result.error = CauseOf(AnswerTo(last))
            /\ (\A endpoint \in {"full", "partial"} :
                    \/ AnswerTo(endpoint).net = "http" /\ AnswerTo(endpoint).status = 404
                    \/ /\ AnswerTo(endpoint).net = "http"
                       /\ AnswerTo(endpoint).status \in 200..299
                       /\ AnswerTo(endpoint).ctype # "application/json")
                  => verify.result.match = "none"

C17_Witness ==
    /\ vpc = "done"
    /\ verify.answers.full = Http(200, "text/html", Null)
    /\ verify.answers.partial = Http(500, "text/html", Null)
    /\ verify.result.match = "error"
    /\ verify.result.error = Err("Sourcify request failed")

-----------------------------------------------------------------------------
(* Properties of the explorer fallback *)

\* C18: getSourceCodeFromExplorer is called only in a run in which the ABI of
\* the result came from the explorer, and never in a run whose registry
\* lookup returned a full or partial match.
C18_SourceFetchOnlyForExplorerAbi ==
    "getSourceCodeFromExplorer" \in Range(calls) =>
        /\ ExplorerAbiParsed
        /\ response.data.abi = JSONParse(abiFetch.v).v
        /\ RegistryMatch \notin {"full", "partial"}

NoRequest == [k |-> "return", v |-> Null, fetched |-> NotCalled]
MetadataAbi ==
    IF sourcifyResult.k = "returned"
    THEN Prop(Prop(sourcifyResult.v.data, "output"), "abi")
    ELSE Undefined

\* C19: when getApiKey finds no key for the chain, getAbiFromExplorer,
\* getSourceCodeFromExplorer, getContractCreationTx and getLogs each return
\* null without issuing a request, and a run of getVerificationData whose
\* registry lookup returns a full or partial match carrying an ABI returns
\* that status with that ABI and error null.
C19_NoKeyNoRequest ==
    keyStore = "nokey" =>
        /\ xpc = "called" => xcall.out = NoRequest
        /\ abiFetch # NotCalled => abiFetch = NoRequest
        /\ creation # NotCalled => creation = NoRequest
        /\ (Returned /\ RegistryMatch \in {"full", "partial"} /\ Truthy(MetadataAbi)) =>
              /\ response.status = RegistryMatch
              /\ response.data.abi = MetadataAbi
              /\ response.error = Null

\* A chain with an explorer URL and no key: a full match with an ABI has
\* been returned, the creation transaction was asked for and skipped, and
\* getLogs called on its own was skipped too.
C19_Witness ==
    /\ keyStore = "nokey"
    /\ Truthy(Prop(chain, "explorerApiUrl"))
    /\ Returned
    /\ RegistryMatch = "full"
    /\ response.status = "full"
    /\ response.data.abi = FooAbi
    /\ creation = NoRequest
    /\ xcall = [op |-> "getLogs", out |-> NoRequest]

\* No registry operation is called after an explorer operation.
RegistryBeforeExplorer ==
    \A i, j \in DOMAIN calls :
        (i < j /\ calls[i] \in ExplorerOps) => calls[j] \in ExplorerOps

\* C20 as stated: registry and explorer are probed one after the other, no
\* explorer operation starts before the registry lookup has returned, and an
\* explorer operation is invoked only in runs whose registry lookup reported
\* 'none'.
C20_ExplorerOnlyAfterMiss ==
    Range(calls) \cap ExplorerOps # {} =>
        /\ sourcifyResult.k = "returned"
        /\ RegistryBeforeExplorer
        /\ RegistryMatch = "none"

\* C20, made exact: registry and explorer are probed one after the other, no
\* explorer operation starts before the registry lookup has returned, and an
\* explorer operation is invoked only in runs whose registry lookup returned
\* 'none', 'full' or 'partial'; after a registry error or fault none is.
C20_ExplorerOnlyAfterLookup ==
    Range(calls) \cap ExplorerOps # {} =>
        /\ sourcifyResult.k = "returned"
        /\ RegistryBeforeExplorer
        /\ calls[1] = "verifyContract"
        /\ RegistryMatch \in {"none", "full", "partial"}

C20_Witness ==
    /\ Returned
    /\ RegistryMatch = "full"
    /\ calls = <<"verifyContract", "getDeploymentInfo", "getAbiFromExplorer",
                 "getSourceCodeFromExplorer", "getContractCreationTx">>

-----------------------------------------------------------------------------
(* Properties of the result of getVerificationData *)

ResultShape ==
    Returned =>
        /\ response.status \in {"full", "partial", "verified", "unverified", "error"}
        /\ response.source \in {"none", "sourcify", "blockExplorer"}
        /\ Prop(response.deployment, "source")
              \in {Str("sourcify"), Str("blockExplorer"), Str("unknown")}

\* C21: every call of getVerificationData ends by returning a result, for
\* every combination of registry and explorer outcomes, explorer calls that
\* throw included; the status is one of full, partial, verified, unverified,
\* error, the source one of none, sourcify, blockExplorer, and
\* deployment.source one of sourcify, blockExplorer, unknown.
C21_AlwaysReturns ==
    /\ []ResultShape
    /\ <>Returned

\* getApiKey threw in both explorer steps; the run still returned.
C21_Witness ==
    /\ Returned
    /\ abiFetch.k = "throw"
    /\ creation.k = "throw"
    /\ response.status = "error"
    /\ Prop(response.deployment, "source") = Str("unknown")

\* C26: the deployment step changes only `deployment`: whatever
\* getContractCreationTx returns or throws, status, source, data and error
\* stay as they were, and a lookup that failed or found nothing leaves
\* deployment.source 'unknown'.
C26_DeploymentStepFrame ==
    [][pc = "deployment" =>
          /\ response'.status = response.status
          /\ response'.source = response.source
          /\ response'.data = response.data
          /\ response'.error = response.error
          /\ ~(creation'.k = "return" /\ HasDeployment(creation'.v)) =>
                response'.deployment = response.deployment
          /\ (creation' # creation
               /\ ~(creation'.k = "return" /\ HasDeployment(creation'.v))) =>
                Prop(response'.deployment, "source") = Str("unknown")]_vars

\* The creation request failed on every attempt after the ABI was found.
C26_Witness ==
    /\ Returned
    /\ response.status = "verified"
    /\ creation.k = "return"
    /\ creation.v = Null
    /\ creation.fetched.k = "throw"
    /\ Prop(response.deployment, "source") = Str("unknown")

\* C27: a returned result has status 'error' exactly when its error field is
\* non-null, and once a step has set status 'error' no later step of the run
\* changes status or error.
C27_ErrorIffStatus ==
    /\ [](Returned => (response.status = "error" <=> response.error # Null))
    /\ [][response.status = "error" =>
            (response'.status = "error" /\ response'.error = response.error)]_vars

\* The ABI text did not parse; the deployment step ran after that.
C27_Witness ==
    /\ Returned
    /\ response.status = "error"
    /\ response.error = Err("SyntaxError")
    /\ creation # NotCalled

-----------------------------------------------------------------------------
(* Properties of proxy detection in getContractInfo *)

Detected == ipc \in {"implementation", "result", "done"}
ImplementationField == Prop(info.contractData, "Implementation")
SourceText == Prop(info.contractData, "SourceCode")
\* (1) the explorer's Implementation field is non-empty
TierImplementation == ImplementationField.t = "string" /\ Len(ImplementationField.v) > 0
\* (2) the source text contains 'delegatecall'
TierDelegatecall == SourceText.t = "string" /\ "delegatecall" \in Range(SourceText.v)
\* (3) the source text contains an upgradeable-proxy marker
TierMarker ==
    /\ SourceText.t = "string"
    /\ Range(SourceText.v)
          \cap {"upgradeable", "ERC1967Proxy", "TransparentUpgradeableProxy"} # {}

\* C22: getContractInfo classifies by the first matching tier of
\* Implementation field, 'delegatecall' in the source, upgradeable-proxy
\* marker in the source; proxy is false exactly when no tier matches; an
\* implementation address is reported and an implementation fetch made only
\* when the first tier matched.
C22_ProxyTiers ==
    /\ Detected =>
          /\ info.isProxy <=> (TierImplementation \/ TierDelegatecall \/ TierMarker)
          /\ info.implementation =
                IF TierImplementation THEN ImplementationField ELSE Txt(<<>>)
          /\ info.implResponse # NotCalled => TierImplementation
    /\ (ipc = "done" /\ info.isProxy \in BOOLEAN /\ info.contractData # Undefined
         /\ info.result # Undefined) =>
          /\ Prop(info.result, "proxy") = Bool(info.isProxy)
          /\ Prop(info.result, "implementation") = info.implementation
          /\ Truthy(Prop(info.result, "implementation")) => TierImplementation

\* A source with a marker and no Implementation field: a proxy without an
\* implementation address, and no implementation request.
C22_Witness ==
    /\ ipc = "done"
    /\ ~TierImplementation
    /\ ~TierDelegatecall
    /\ TierMarker
    /\ Prop(info.result, "proxy") = True
    /\ Prop(info.result, "implementation") = Txt(<<>>)
    /\ info.implResponse = NotCalled

-----------------------------------------------------------------------------
(* Properties of the explorer operations *)

\* The operation has been called and its request was answered with a result.
Answered(op) ==
    /\ xpc = "called"
    /\ xcall.op = op
    /\ xcall.out.fetched # NotCalled
    /\ xcall.out.fetched.k = "return"
\* SourceCode of the first element of the answer to getsourcecode
AnsweredSourceCode == Prop(xcall.out.fetched.v.v[1], "SourceCode")
HasSourceCode ==
    /\ Answered("getSourceCodeFromExplorer")
    /\ xcall.out.fetched.v.t = "array"
    /\ Len(xcall.out.fetched.v.v) > 0
    /\ AnsweredSourceCode.t = "string"
    /\ Len(AnsweredSourceCode.v) > 0
\* The three shapes of a SourceCode text.
FlatSource == HasSourceCode /\ AnsweredSourceCode.v[1] # "{"
SourcesJson ==
    /\ HasSourceCode
    /\ Len(AnsweredSourceCode.v) >= 3
    /\ AnsweredSourceCode.v[1] = "{"
    /\ AnsweredSourceCode.v[2] # "{"
    /\ "S" \in Range(AnsweredSourceCode.v)
DoubleWrapped ==
    /\ HasSourceCode
    /\ Len(AnsweredSourceCode.v) >= 5
    /\ AnsweredSourceCode.v[1] = "{"
    /\ AnsweredSourceCode.v[2] = "{"
    /\ "S" \in Range(AnsweredSourceCode.v)
\* One entry per file of the `sources` map: path to content.
FilePerSource == Obj([path \in DOMAIN SourcesMap.f |-> Prop(SourcesMap.f[path], "content")])

\* C23: for a flat source string, a JSON object with a `sources` map and a
\* double-wrapped JSON text, getSourceCodeFromExplorer returns a map with one
\* entry per source file; the files of the two multi-file shapes are never
\* returned as one entry.
C23_OneEntryPerFile ==
    /\ FlatSource =>
          /\ xcall.out.k = "return"
          /\ xcall.out.v.t = "object"
          /\ Cardinality(DOMAIN xcall.out.v.f) = 1
          /\ \A path \in DOMAIN xcall.out.v.f : xcall.out.v.f[path] = AnsweredSourceCode
    /\ (SourcesJson \/ DoubleWrapped) =>
          /\ xcall.out.k = "return"
          /\ xcall.out.v = FilePerSource

\* `to` or `contractAddress` of tx is the queried address, letter case aside.
NamesAddress(tx) ==
    \E field \in {"to", "contractAddress"} :
        /\ Prop(tx, field).t = "string"
        /\ toLowerCase(Prop(tx, field)) = toLowerCase(address)
Requested(op) == xpc = "called" /\ xcall.op = op /\ xcall.out.fetched # NotCalled
FirstTransactionMatches ==
    /\ xcall.out.fetched.k = "return"
    /\ xcall.out.fetched.v.t = "array"
    /\ Len(xcall.out.fetched.v.v) > 0
    /\ NamesAddress(xcall.out.fetched.v.v[1])

\* C24: getContractCreationTx returns a non-null {txHash, blockNumber} only
\* if the first (oldest) transaction listed has a `to` or `contractAddress`
\* equal to the queried address, compared case-insensitively; for an empty
\* list, a first transaction that does not match, or a request that failed
\* after all retries it returns null and does not throw.
C24_CreationOnlyIfFirstMatches ==
    (xpc = "called" /\ xcall.op = "getContractCreationTx") =>
        /\ (xcall.out.k = "return" /\ xcall.out.v # Null) =>
              /\ xcall.out.fetched # NotCalled
              /\ FirstTransactionMatches
              /\ DOMAIN xcall.out.v.f = {"txHash", "blockNumber"}
        /\ (xcall.out.fetched # NotCalled /\ ~FirstTransactionMatches) =>
              xcall.out = [k |-> "return", v |-> Null, fetched |-> xcall.out.fetched]

\* The address was queried in lower case and the first transaction names it
\* in upper case.
C24_Witness ==
    /\ Requested("getContractCreationTx")
    /\ address = Str("0xab")
    /\ FirstTransactionMatches
    /\ Prop(xcall.out.fetched.v.v[1], "to") = Str("0xAB")
    /\ xcall.out.v = Obj([txHash |-> Str("0xtx"), blockNumber |-> Num(7)])

-----------------------------------------------------------------------------
(* Properties of the event scan *)

Chunked == scan.pc \in {"loop", "await", "done"} /\ ScanLength > blockRange

\* Requests are issued one at a time, each range is non-empty, and each
\* starts above the end of the one before (ascending, pairwise disjoint).
RequestsInOrder ==
    /\ Cardinality(scan.pending) <= 1
    /\ \A k \in DOMAIN scan.requests :
          /\ scan.requests[k].fromBlock <= scan.requests[k].toBlock
          /\ k > 1 => scan.requests[k].fromBlock > scan.requests[k - 1].toBlock

\* Events are kept in the order of the requests they came from.
EventsInRequestOrder ==
    \A k \in DOMAIN scan.events :
        k > 1 => scan.events[k].chunk > scan.events[k - 1].chunk

\* No block between deploymentBlock and latestBlock is left out: the first
\* range starts at deploymentBlock, each next range starts right after the
\* one before, and the last range ends at latestBlock.
RequestsCoverRange ==
    /\ scan.requests # <<>>
    /\ scan.requests[1].fromBlock <= scan.deploymentBlock
    /\ \A k \in DOMAIN scan.requests :
          k > 1 => scan.requests[k].fromBlock <= scan.requests[k - 1].toBlock + 1
    /\ scan.requests[Len(scan.requests)].toBlock >= scan.latestBlock

\* C25: when more than 10000 blocks are scanned, the chunk requests are
\* issued one after another in ascending block order, their ranges are
\* non-empty and pairwise disjoint, events are appended in request order,
\* and, unless the 500-event cap stopped the loop, the ranges together cover
\* every block from deploymentBlock to latestBlock.
C25_ChunksCoverRange ==
    Chunked =>
        /\ RequestsInOrder
        /\ EventsInRequestOrder
        /\ (scan.pc = "done" /\ ~scan.capped) => RequestsCoverRange

\* The part of C25 that the code keeps: order, non-empty disjoint ranges.
ChunksInOrder == Chunked => RequestsInOrder /\ EventsInRequestOrder

\* Where coverage is lost: only when the range is a whole number of chunks,
\* and then it is latestBlock alone that no request names.
CoverageUnlessMultiple ==
    (Chunked /\ scan.pc = "done" /\ ~scan.capped) =>
        IF ScanLength = numChunks(ScanLength) * actualBlockRange(ScanLength)
        THEN scan.requests[Len(scan.requests)].toBlock = scan.latestBlock - 1
        ELSE RequestsCoverRange

-----------------------------------------------------------------------------
(* Properties of the chain configuration *)

\* The config later getChainById, getSelectedChain, getAllChains and
\* getApiKey calls of the process read.
Observed == loadConfig(conf)

\* getSelectedChain finds the selected chain: chains[String(selectedChainId)].
SelectionValid(config) ==
    \/ config.selectedChainId = Null
    \/ String(config.selectedChainId) \in DOMAIN config.chains

KeysValid(config) == DOMAIN config.apiKeys \subseteq DOMAIN config.chains

UnknownChain(chainId) == String(chainId) \notin DOMAIN Observed.chains

\* C28: after any sequence of addChain, removeChain, setSelectedChain and
\* saveApiKey calls, succeeding or throwing, selectedChainId is null or the
\* id of a chain of the config and every stored API key belongs to a chain
\* of the config; setSelectedChain and saveApiKey for an unknown chain id
\* throw and change nothing.
C28_ConfigStaysValid ==
    /\ [](SelectionValid(Observed) /\ KeysValid(Observed))
    /\ [][(/\ conf'.ops > conf.ops
           /\ conf'.last.op \in {"setSelectedChain", "saveApiKey"}
           /\ UnknownChain(conf'.last.id))
          => (/\ conf'.last.out.k = "throw"
              /\ Observed' = Observed
              /\ conf'.file = conf.file)]_vars

\* The parts of C28 taken one by one.
SelectionStaysValid == SelectionValid(Observed)
KeysStayValid == KeysValid(Observed)
UnknownChainChangesNothing ==
    [][(/\ conf'.ops > conf.ops
        /\ conf'.last.op \in {"setSelectedChain", "saveApiKey"}
        /\ UnknownChain(conf'.last.id))
       => (/\ conf'.last.out.k = "throw"
           /\ Observed' = Observed
           /\ conf'.file = conf.file)]_vars

\* C29: when the write inside saveConfig fails, the operation throws and
\* the config read by later calls of the process is what it was before the
\* operation.
C29_FailedSaveChangesNothing ==
    [][(conf'.ops > conf.ops /\ conf'.last.out = [k |-> "throw", e |-> SaveFailed])
       => Observed' = Observed]_vars

\* The half of C29 that the code keeps: a failed write leaves the file as
\* it was and the operation throws.
FailedSaveKeepsFile ==
    [][(conf'.ops > conf.ops /\ conf'.last.out = [k |-> "throw", e |-> SaveFailed])
       => conf'.file = conf.file]_vars

-----------------------------------------------------------------------------
(* Properties of the saved source files *)

\* A written path is inside the contract's directory when it does not climb
\* above it.
Inside(path) == path.up = 0

\* C30: every source file analyzeContract writes lies inside the contract's
\* own output directory <base>/<chainId>/<lowercase address>: after the
\* "../" removal no written path resolves to a location outside it.
C30_WritesStayInside == \A path \in files.written : Inside(path)

\* What the removal does achieve: a name whose every ".." segment is part of
\* a "../" that the scan meets is written inside the directory, and a name
\* left empty is not written.
PlainTraversalRemoved ==
    \A k \in 1..Len(files.sourceCode) :
        LET name == files.sourceCode[k].filename
        IN  (k < files.k /\ safeFilename(safeFilename(name)) = safeFilename(name)
               /\ (Len(name) >= 2 => SubSeq(name, Len(name) - 1, Len(name)) # <<".", ".">>))
              => \A path \in files.written :
                    path = filePath(safeFilename(name)) => Inside(path)
====
